---- MODULE Spec2Model ----
(***************************************************************************)
(* A model of manifest_reader.py: the Manifest, FileList and               *)
(* FolderStructure classes, their construction from a parsed manifest      *)
(* mapping and their accessors.                                            *)
(*                                                                         *)
(* Representation of Python values:                                        *)
(*   - kinds, block names, simulator names, standards and dictionary keys  *)
(*     are TLA+ strings (only compared and concatenated);                  *)
(*   - path strings (root_dir, the folder-structure subdirectories, file   *)
(*     names) are sequences of one-character strings, because pathlib      *)
(*     parses them;                                                        *)
(*   - a value that may be None carries a type tag: None, PyList(s),       *)
(*     PyDict(items), PyStr(s);                                            *)
(*   - a dict whose order matters (manifest_dict["files"]) is a sequence   *)
(*     of [key, value] items in insertion order;                           *)
(*   - a call either returns a value or raises: Return(v), Raise(e, arg).  *)
(***************************************************************************)
EXTENDS Integers, Sequences, FiniteSets, TLC

(***************************************************************************)
(* Bounds of the model.                                                    *)
(***************************************************************************)
\* most kinds declared under `files` in one manifest
MaxKinds == 2
\* most file names in one manifest
MaxFiles == 3
\* most entries of a supported_simulators list
MaxSims == 2
\* the longest a list grows when a caller appends to it
MaxListLen == 3
\* most libraries added to one VUnit object
MaxLibraries == 2
\* most threads of a test run
MaxThreads == 2
\* most tests of a project
MaxTests == 2
\* most failed attempts to open the status file that a thread counts
MaxAttempts == 1
\* most cores of the machine
MaxCores == 2
\* most threads requested on the command line
MaxRequested == 3
\* most licenses the license server issues
MaxLicenses == 2

(***************************************************************************)
(* Python values.                                                          *)
(***************************************************************************)
None == [type |-> "NoneType"]
PyList(s) == [type |-> "list", value |-> s]
PyStr(s) == [type |-> "str", value |-> s]
PyDict(items) == [type |-> "dict", value |-> items]
Return(v) == [type |-> "return", value |-> v]
Raise(e, a) == [type |-> "raise", value |-> [exc |-> e, arg |-> a]]

\* `k in d`, `d.keys()` and `d[k]` of an insertion-ordered dict
dict_keys(d) == [i \in 1..Len(d.value) |-> d.value[i].key]
dict_contains(d, k) == \E i \in 1..Len(d.value) : d.value[i].key = k
dict_getitem(d, k) == d.value[CHOOSE i \in 1..Len(d.value) : d.value[i].key = k].value

\* `x in l` of a list
list_contains(l, x) == \E i \in 1..Len(l.value) : l.value[i] = x

(***************************************************************************)
(* pathlib.PurePosixPath: a path is its root ("/" or "") and its parts.    *)
(***************************************************************************)
\* the components of a path string, split at "/"
RECURSIVE SplitSlash(_, _)
SplitSlash(s, cur) ==
    IF s = <<>> THEN <<cur>>
    ELSE IF Head(s) = "/" THEN <<cur>> \o SplitSlash(Tail(s), <<>>)
    ELSE SplitSlash(Tail(s), Append(cur, Head(s)))

\* pathlib drops empty components and "." components, and keeps ".."
RECURSIVE DropCurDir(_)
DropCurDir(comps) ==
    IF comps = <<>> THEN <<>>
    ELSE IF Head(comps) = <<>> \/ Head(comps) = <<".">> THEN DropCurDir(Tail(comps))
    ELSE <<Head(comps)>> \o DropCurDir(Tail(comps))

\* Path(s)
Path(s) ==
    [root |-> IF s # <<>> /\ Head(s) = "/" THEN "/" ELSE "",
     parts |-> DropCurDir(SplitSlash(s, <<>>))]

\* p / s : an absolute s replaces p
PathJoin(p, s) ==
    IF Path(s).root = "/" THEN Path(s)
    ELSE [root |-> p.root, parts |-> p.parts \o Path(s).parts]

(***************************************************************************)
(* Module constants.                                                       *)
(***************************************************************************)
SIMULATORS == <<"msim", "msim_free", "ghdl", "qsim", "xsim">>
DEFAULT_SIMULATORS == <<"msim", "msim_free">>
DEFAULT_MAX_THREADS == 5

(***************************************************************************)
(* class FileList                                                          *)
(***************************************************************************)
FileList_init(kind, files, standard) ==
    [kind |-> kind, files |-> files, standard |-> standard]

\* FileList.kinds with the suffix of self left empty
kinds_self_without_suffix ==
    [dsn |-> "_dsn", tb |-> "_tb", self |-> "", none |-> ""]

\* FileList.kinds with the suffix of tb copied from dsn
kinds_tb_as_dsn ==
    [dsn |-> "_dsn", tb |-> "_dsn", self |-> "_lib", none |-> ""]

\* FileList.kinds
kinds == [dsn |-> "_dsn", tb |-> "_tb", self |-> "_lib", none |-> ""]

\* get_lib_name with the suffix put before the block name
get_lib_name_suffix_first(self, blk_name) ==
    IF self.kind \in DOMAIN kinds
    THEN Return(kinds[self.kind] \o blk_name)
    ELSE Raise("KeyError", self.kind)

get_lib_name(self, blk_name) ==
    IF self.kind \in DOMAIN kinds
    THEN Return(blk_name \o kinds[self.kind])
    ELSE Raise("KeyError", self.kind)

(***************************************************************************)
(* class FolderStructure                                                   *)
(***************************************************************************)
\* folder_structures with the tb entry of src_dsn copied from its dsn entry
folder_structures_tb_as_dsn ==
    [src_dsn |-> [dsn |-> <<"s", "r", "c", "/", "d", "s", "n">>,
                  tb |-> <<"s", "r", "c", "/", "d", "s", "n">>,
                  self |-> <<>>],
     hdl_sim |-> [dsn |-> <<".", ".">>,
                  tb |-> <<".">>,
                  self |-> <<>>]]

\* folder_structures with the design sources of hdl_sim in the sibling
\* directory ../hdl
folder_structures_dsn_in_sibling ==
    [src_dsn |-> [dsn |-> <<"s", "r", "c", "/", "d", "s", "n">>,
                  tb |-> <<"s", "r", "c", "/", "t", "b">>,
                  self |-> <<>>],
     hdl_sim |-> [dsn |-> <<".", ".", "/", "h", "d", "l">>,
                  tb |-> <<".">>,
                  self |-> <<>>]]

\* FolderStructure.folder_structures
folder_structures ==
    [src_dsn |-> [dsn |-> <<"s", "r", "c", "/", "d", "s", "n">>,
                  tb |-> <<"s", "r", "c", "/", "t", "b">>,
                  self |-> <<>>],
     hdl_sim |-> [dsn |-> <<".", ".">>,
                  tb |-> <<".">>,
                  self |-> <<>>]]

\* FolderStructure.__init__ taking the src_dsn table for a name it does not
\* know
FolderStructure_init_fallback(folder_structure) ==
    IF folder_structure \in DOMAIN folder_structures
    THEN Return([type |-> "FolderStructure",
                 name |-> folder_structure,
                 structure |-> folder_structures[folder_structure]])
    ELSE Return([type |-> "FolderStructure",
                 name |-> "",
                 structure |-> folder_structures["src_dsn"]])

FolderStructure_init(folder_structure) ==
    IF folder_structure \in DOMAIN folder_structures
    THEN Return([type |-> "FolderStructure",
                 name |-> folder_structure,
                 structure |-> folder_structures[folder_structure]])
    ELSE Raise("KeyError", folder_structure)

(***************************************************************************)
(* class Manifest                                                          *)
(***************************************************************************)
\* file_list_standard with the override looked up before the test for tb
file_list_standard_override_first(kind, default_standard, standards) ==
    IF standards # None /\ dict_contains(standards, kind)
    THEN dict_getitem(standards, kind)
    ELSE IF kind = "tb" THEN "VHDL 2008"
         ELSE default_standard

\* file_list_standard with the declared default taking precedence over
\* the override
file_list_standard_default_first(kind, default_standard, standards) ==
    IF kind = "tb" THEN "VHDL 2008"
    ELSE IF default_standard # "VHDL" THEN default_standard
    ELSE IF standards # None /\ dict_contains(standards, kind)
         THEN dict_getitem(standards, kind)
         ELSE default_standard

\* the standard of the file list of one kind (the body of the loop over
\* manifest_dict["files"].keys())
file_list_standard(kind, default_standard, standards) ==
    IF kind = "tb" THEN "VHDL 2008"
    ELSE IF standards # None /\ dict_contains(standards, kind)
         THEN dict_getitem(standards, kind)
         ELSE default_standard

\* Manifest.__init__ reading an absent `files` key as an empty mapping
Manifest_init_files_optional(manifest_dict, root_dir) ==
    LET has(k) == k \in DOMAIN manifest_dict
        default_standard ==
            IF has("standard") THEN manifest_dict["standard"] ELSE "VHDL"
        standards ==
            IF has("standards") THEN manifest_dict["standards"] ELSE None
        files == IF has("files") THEN manifest_dict["files"] ELSE PyDict(<<>>)
        file_lists ==
            [i \in 1..Len(files.value) |->
                FileList_init(
                    dict_keys(files)[i],
                    dict_getitem(files, dict_keys(files)[i]),
                    file_list_standard(dict_keys(files)[i], default_standard, standards))]
        fs == FolderStructure_init(manifest_dict["folder_structure"])
    IN  IF ~has("name") THEN Raise("KeyError", "name")
        ELSE IF has("folder_structure") /\ fs.type = "raise" THEN fs
        ELSE Return(
            [root_dir |-> Path(root_dir),
             name |-> manifest_dict["name"],
             folder_structure |->
                IF has("folder_structure") THEN fs.value ELSE None,
             file_lists |-> file_lists,
             blocks |->
                IF has("blocks") THEN manifest_dict["blocks"] ELSE None,
             constraints |->
                IF has("constraints") THEN manifest_dict["constraints"] ELSE None,
             ips |-> IF has("ips") THEN manifest_dict["ips"] ELSE None,
             supported_simulators |->
                IF has("supported_simulators")
                THEN manifest_dict["supported_simulators"]
                ELSE PyList(DEFAULT_SIMULATORS),
             max_threads |->
                IF has("max_threads")
                THEN manifest_dict["max_threads"]
                ELSE DEFAULT_MAX_THREADS])

\* Manifest.__init__ building no FileList for a kind without file names
Manifest_init_skipping_empty(manifest_dict, root_dir) ==
    LET has(k) == k \in DOMAIN manifest_dict
        default_standard ==
            IF has("standard") THEN manifest_dict["standard"] ELSE "VHDL"
        standards ==
            IF has("standards") THEN manifest_dict["standards"] ELSE None
        files == PyDict(SelectSeq(manifest_dict["files"].value,
                                  LAMBDA item : item.value # None
                                                /\ item.value # PyList(<<>>)))
        file_lists ==
            [i \in 1..Len(files.value) |->
                FileList_init(
                    dict_keys(files)[i],
                    dict_getitem(files, dict_keys(files)[i]),
                    file_list_standard(dict_keys(files)[i], default_standard, standards))]
        fs == FolderStructure_init(manifest_dict["folder_structure"])
    IN  IF ~has("name") THEN Raise("KeyError", "name")
        ELSE IF has("folder_structure") /\ fs.type = "raise" THEN fs
        ELSE IF ~has("files") THEN Raise("KeyError", "files")
        ELSE Return(
            [root_dir |-> Path(root_dir),
             name |-> manifest_dict["name"],
             folder_structure |->
                IF has("folder_structure") THEN fs.value ELSE None,
             file_lists |-> file_lists,
             blocks |->
                IF has("blocks") THEN manifest_dict["blocks"] ELSE None,
             constraints |->
                IF has("constraints") THEN manifest_dict["constraints"] ELSE None,
             ips |-> IF has("ips") THEN manifest_dict["ips"] ELSE None,
             supported_simulators |->
                IF has("supported_simulators")
                THEN manifest_dict["supported_simulators"]
                ELSE PyList(DEFAULT_SIMULATORS),
             max_threads |->
                IF has("max_threads")
                THEN manifest_dict["max_threads"]
                ELSE DEFAULT_MAX_THREADS])

\* Manifest.__init__ taking an empty `blocks` list for an absent one
Manifest_init_blocks_truthy(manifest_dict, root_dir) ==
    LET has(k) == k \in DOMAIN manifest_dict
        default_standard ==
            IF has("standard") THEN manifest_dict["standard"] ELSE "VHDL"
        standards ==
            IF has("standards") THEN manifest_dict["standards"] ELSE None
        files == manifest_dict["files"]
        file_lists ==
            [i \in 1..Len(files.value) |->
                FileList_init(
                    dict_keys(files)[i],
                    dict_getitem(files, dict_keys(files)[i]),
                    file_list_standard(dict_keys(files)[i], default_standard, standards))]
        fs == FolderStructure_init(manifest_dict["folder_structure"])
    IN  IF ~has("name") THEN Raise("KeyError", "name")
        ELSE IF has("folder_structure") /\ fs.type = "raise" THEN fs
        ELSE IF ~has("files") THEN Raise("KeyError", "files")
        ELSE Return(
            [root_dir |-> Path(root_dir),
             name |-> manifest_dict["name"],
             folder_structure |->
                IF has("folder_structure") THEN fs.value ELSE None,
             file_lists |-> file_lists,
             blocks |->
                IF has("blocks") /\ manifest_dict["blocks"] # PyList(<<>>)
                THEN manifest_dict["blocks"] ELSE None,
             constraints |->
                IF has("constraints") THEN manifest_dict["constraints"] ELSE None,
             ips |-> IF has("ips") THEN manifest_dict["ips"] ELSE None,
             supported_simulators |->
                IF has("supported_simulators")
                THEN manifest_dict["supported_simulators"]
                ELSE PyList(DEFAULT_SIMULATORS),
             max_threads |->
                IF has("max_threads")
                THEN manifest_dict["max_threads"]
                ELSE DEFAULT_MAX_THREADS])

\* Manifest.__init__: the Manifest built, or the exception raised
Manifest_init(manifest_dict, root_dir) ==
    LET has(k) == k \in DOMAIN manifest_dict
        default_standard ==
            IF has("standard") THEN manifest_dict["standard"] ELSE "VHDL"
        standards ==
            IF has("standards") THEN manifest_dict["standards"] ELSE None
        files == manifest_dict["files"]
        file_lists ==
            [i \in 1..Len(files.value) |->
                FileList_init(
                    dict_keys(files)[i],
                    dict_getitem(files, dict_keys(files)[i]),
                    file_list_standard(dict_keys(files)[i], default_standard, standards))]
        fs == FolderStructure_init(manifest_dict["folder_structure"])
    IN  IF ~has("name") THEN Raise("KeyError", "name")
        ELSE IF has("folder_structure") /\ fs.type = "raise" THEN fs
        ELSE IF ~has("files") THEN Raise("KeyError", "files")
        ELSE Return(
            [root_dir |-> Path(root_dir),
             name |-> manifest_dict["name"],
             folder_structure |->
                IF has("folder_structure") THEN fs.value ELSE None,
             file_lists |-> file_lists,
             blocks |->
                IF has("blocks") THEN manifest_dict["blocks"] ELSE None,
             constraints |->
                IF has("constraints") THEN manifest_dict["constraints"] ELSE None,
             ips |-> IF has("ips") THEN manifest_dict["ips"] ELSE None,
             supported_simulators |->
                IF has("supported_simulators")
                THEN manifest_dict["supported_simulators"]
                ELSE PyList(DEFAULT_SIMULATORS),
             max_threads |->
                IF has("max_threads")
                THEN manifest_dict["max_threads"]
                ELSE DEFAULT_MAX_THREADS])

\* get_source_dir falling back to the src_dsn convention when the manifest
\* has no folder structure
get_source_dir_default_src_dsn(self, kind) ==
    LET structure == IF self.folder_structure = None
                     THEN folder_structures["src_dsn"]
                     ELSE self.folder_structure.structure
    IN  IF kind \in DOMAIN structure
        THEN Return(PathJoin(self.root_dir, structure[kind]))
        ELSE Raise("KeyError", kind)

\* get_source_dir giving root_dir for a kind the convention has no entry for
get_source_dir_missing_kind_is_root(self, kind) ==
    IF self.folder_structure = None THEN Return(self.root_dir)
    ELSE IF kind \in DOMAIN self.folder_structure.structure
         THEN Return(PathJoin(self.root_dir, self.folder_structure.structure[kind]))
         ELSE Return(self.root_dir)

get_source_dir(self, kind) ==
    IF self.folder_structure = None THEN Return(self.root_dir)
    ELSE IF kind \in DOMAIN self.folder_structure.structure
         THEN Return(PathJoin(self.root_dir, self.folder_structure.structure[kind]))
         ELSE Raise("KeyError", kind)

\* preference_order in the order of SIMULATORS
preference_order_of_simulators == SIMULATORS

\* the loop of get_preferred_simulator from position i of preference_order
preference_order == <<"ghdl", "qsim", "msim", "msim_free", "xsim">>

RECURSIVE preferred_from(_, _)
preferred_from(self, i) ==
    IF i > Len(preference_order) THEN Return(None)
    ELSE IF list_contains(self.supported_simulators, preference_order[i])
         THEN Return(PyStr(preference_order[i]))
         ELSE preferred_from(self, i + 1)

get_preferred_simulator(self) == preferred_from(self, 1)

get_max_threads(self) == Return(self.max_threads)

\* get_all_files putting the paths of each file list before those of the
\* lists already handled
RECURSIVE all_files_prepending(_, _, _)
all_files_prepending(self, i, ret) ==
    IF i > Len(self.file_lists) THEN Return(PyList(ret))
    ELSE LET file_list == self.file_lists[i]
             files == file_list.files
             dir == get_source_dir(self, file_list.kind)
         IN  IF dir.type = "raise" THEN dir
             ELSE IF files = None THEN Raise("TypeError", file_list.kind)
             ELSE all_files_prepending(self, i + 1,
                    [j \in 1..Len(files.value) |->
                        PathJoin(dir.value, files.value[j])] \o ret)

get_all_files_prepending(self) == all_files_prepending(self, 1, <<>>)

\* the loop of get_all_files from file list i on, ret being the paths so far
RECURSIVE all_files_from(_, _, _)
all_files_from(self, i, ret) ==
    IF i > Len(self.file_lists) THEN Return(PyList(ret))
    ELSE LET file_list == self.file_lists[i]
             files == file_list.files
             dir == get_source_dir(self, file_list.kind)
         IN  IF dir.type = "raise" THEN dir
             ELSE IF files = None THEN Raise("TypeError", file_list.kind)
             ELSE all_files_from(self, i + 1,
                    ret \o [j \in 1..Len(files.value) |->
                                PathJoin(dir.value, files.value[j])])

get_all_files(self) == all_files_from(self, 1, <<>>)

(***************************************************************************)
(* The tools that read manifests: read_manifest and the adapters that walk *)
(* the file lists of every block (vhdl_ls_util, vsg_util, vivado_util,     *)
(* vunit_helper).  A string the tools produce is a string; a file name     *)
(* given in a manifest is the sequence of its characters.                  *)
(***************************************************************************)
\* str(chars) of a sequence of characters
RECURSIVE Str(_)
Str(chars) == IF chars = <<>> THEN "" ELSE Head(chars) \o Str(Tail(chars))

RECURSIVE JoinParts(_)
JoinParts(parts) ==
    IF Len(parts) = 1 THEN Str(parts[1])
    ELSE Str(Head(parts)) \o "/" \o JoinParts(Tail(parts))

\* str(p) of a path
PathStr(p) ==
    IF p.parts = <<>> THEN (IF p.root = "/" THEN "/" ELSE ".")
    ELSE p.root \o JoinParts(p.parts)

\* Path(file).suffix: the last component from its last dot on, unless the
\* dot is its first or last character
suffix(file) ==
    LET parts == Path(file).parts
        name == IF parts = <<>> THEN <<>> ELSE parts[Len(parts)]
        dots == {i \in 1..Len(name) : name[i] = "."}
        last == CHOOSE i \in dots : \A j \in dots : j <= i
    IN  IF dots = {} \/ last = 1 \/ last = Len(name) THEN ""
        ELSE Str(SubSeq(name, last, Len(name)))

\* Path.resolve() of an absolute path without symbolic links: every ".."
\* applied
RECURSIVE resolve_parts(_, _)
resolve_parts(parts, done) ==
    IF parts = <<>> THEN done
    ELSE IF Head(parts) = <<".", ".">>
         THEN resolve_parts(Tail(parts),
                            IF done = <<>> THEN <<>> ELSE SubSeq(done, 1, Len(done) - 1))
         ELSE resolve_parts(Tail(parts), Append(done, Head(parts)))

resolve(p) == [root |-> p.root, parts |-> resolve_parts(p.parts, <<>>)]

\* Path(p).relative_to(base) succeeds
is_relative_to(p, base) ==
    /\ p.root = base.root
    /\ Len(p.parts) >= Len(base.parts)
    /\ SubSeq(p.parts, 1, Len(base.parts)) = base.parts

\* d[k] = v and d.update(e) of an insertion-ordered dict
dict_setitem(d, k, v) ==
    IF dict_contains(d, k)
    THEN PyDict([i \in 1..Len(d.value) |->
                    IF d.value[i].key = k THEN [key |-> k, value |-> v]
                    ELSE d.value[i]])
    ELSE PyDict(Append(d.value, [key |-> k, value |-> v]))

RECURSIVE dict_update_from(_, _, _)
dict_update_from(d, e, i) ==
    IF i > Len(e.value) THEN d
    ELSE dict_update_from(dict_setitem(d, e.value[i].key, e.value[i].value), e, i + 1)

dict_update(d, e) == dict_update_from(d, e, 1)

\* a directory without a manifest.yaml
NoFile == [type |-> "NoFile"]
ManifestYaml == <<"m", "a", "n", "i", "f", "e", "s", "t", ".", "y", "a", "m", "l">>

\* the block directories of the project, in the order of the blocks file
BlockDirs == << <<"/", "w", "/", "p">>, <<"/", "e", "/", "q">> >>

\* blocks_reader.read_blocks: the block directories, each holding a manifest
read_blocks(disk) == SelectSeq(BlockDirs, LAMBDA d : disk[d] # NoFile)

\* read_manifest reading a missing manifest.yaml as an empty document
read_manifest_missing_as_empty(disk, root_dir) ==
    LET file == disk[root_dir]
    IN  IF file = NoFile THEN Manifest_init(<<>>, root_dir)
        ELSE Manifest_init(file, root_dir)

\* read_manifest: open() raises when root_dir holds no manifest.yaml; the
\* document the file holds is what yaml.load gives
read_manifest(disk, root_dir) ==
    LET file == disk[root_dir]
    IN  IF file = NoFile
        THEN Raise("FileNotFoundError",
                   PathStr(PathJoin(Path(root_dir), ManifestYaml)))
        ELSE Manifest_init(file, root_dir)

(***************************************************************************)
(* vhdl_ls_util.get_vhdl_ls_libs                                           *)
(***************************************************************************)
\* the full paths of the files of one file list, as get_vhdl_ls_libs and
\* generate_filelist build them
resolved_paths(dir, files) ==
    [k \in 1..Len(files) |-> PathStr(resolve(PathJoin(dir, files[k])))]

\* the loop over manifest.file_lists from file list j on
RECURSIVE vhdl_ls_lists_from(_, _, _)
vhdl_ls_lists_from(libs, manifest, j) ==
    IF j > Len(manifest.file_lists) THEN Return(libs)
    ELSE LET file_list == manifest.file_lists[j]
             lib == get_lib_name(file_list, manifest.name)
             dir == get_source_dir(manifest, file_list.kind)
         IN  IF lib.type = "raise" THEN lib
             ELSE IF file_list.files = None
             THEN vhdl_ls_lists_from(dict_setitem(libs, lib.value, PyList(<<>>)),
                                     manifest, j + 1)
             ELSE IF file_list.files.value # <<>> /\ dir.type = "raise" THEN dir
             ELSE vhdl_ls_lists_from(
                    dict_setitem(libs, lib.value,
                                 PyList(IF file_list.files.value = <<>> THEN <<>>
                                        ELSE resolved_paths(dir.value,
                                                            file_list.files.value))),
                    manifest, j + 1)

\* the loop over blk_dirs from block i on
RECURSIVE vhdl_ls_blocks_from(_, _, _, _)
vhdl_ls_blocks_from(libs, disk, blk_dirs, i) ==
    IF i > Len(blk_dirs) THEN Return(libs)
    ELSE LET manifest == read_manifest(disk, blk_dirs[i])
             r == vhdl_ls_lists_from(libs, manifest.value, 1)
         IN  IF manifest.type = "raise" THEN manifest
             ELSE IF r.type = "raise" THEN r
             ELSE vhdl_ls_blocks_from(r.value, disk, blk_dirs, i + 1)

\* get_vunit_stuff: the libraries of the vunit installation, none when vunit
\* cannot be imported
get_vunit_stuff(vunit_installed) ==
    IF vunit_installed
    THEN PyDict(<<[key |-> "vunit_lib", value |-> PyList(<<"/v/vhdl/run.vhd">>)],
                  [key |-> "osvvm", value |-> PyList(<<"/v/vhdl/osvvm/a.vhd">>)]>>)
    ELSE PyDict(<<>>)

get_vhdl_ls_libs(disk, vunit_installed) ==
    LET r == vhdl_ls_blocks_from(PyDict(<<>>), disk, read_blocks(disk), 1)
    IN  IF r.type = "raise" THEN r
        ELSE Return(dict_update(r.value, get_vunit_stuff(vunit_installed)))

(***************************************************************************)
(* vsg_util.get_vsg_files, without exclude_patterns                        *)
(***************************************************************************)
RECURSIVE vsg_lists_from(_, _, _)
vsg_lists_from(vsg_files, manifest, j) ==
    IF j > Len(manifest.file_lists) THEN Return(vsg_files)
    ELSE LET file_list == manifest.file_lists[j]
             dir == get_source_dir(manifest, file_list.kind)
             vhd == SelectSeq(file_list.files.value, LAMBDA file : suffix(file) = ".vhd")
         IN  IF file_list.files = None
             THEN vsg_lists_from(vsg_files, manifest, j + 1)
             ELSE IF file_list.files.value # <<>> /\ dir.type = "raise" THEN dir
             ELSE vsg_lists_from(
                    vsg_files \o [k \in 1..Len(vhd) |->
                                    PathStr(PathJoin(dir.value, vhd[k]))],
                    manifest, j + 1)

RECURSIVE vsg_blocks_from(_, _, _, _)
vsg_blocks_from(vsg_files, disk, blk_dirs, i) ==
    IF i > Len(blk_dirs) THEN Return(PyList(vsg_files))
    ELSE LET manifest == read_manifest(disk, blk_dirs[i])
             r == vsg_lists_from(vsg_files, manifest.value, 1)
         IN  IF manifest.type = "raise" THEN manifest
             ELSE IF r.type = "raise" THEN r
             ELSE vsg_blocks_from(r.value, disk, blk_dirs, i + 1)

get_vsg_files(disk) == vsg_blocks_from(<<>>, disk, read_blocks(disk), 1)

(***************************************************************************)
(* vivado_util.generate_filelist, without relative_to and other_files: the *)
(* list of [path, lib_name, standard] it writes to filelist.tcl            *)
(***************************************************************************)
get_build_standard(path, file_list) ==
    IF suffix(path) \in {".svh", ".vh"} THEN "Verilog Header"
    ELSE IF suffix(path) \in {".v", ".sv"} THEN "Verilog"
    ELSE file_list.standard

get_ip_standard(path, file_list) ==
    IF suffix(path) \in {".svh", ".vh"} THEN "verilogSource"
    ELSE IF suffix(path) \in {".v", ".sv"} THEN "verilogSource"
    ELSE IF file_list.standard = "VHDL" THEN "vhdlSource"
    ELSE "vhdlSource-2008"

get_standard(path, file_list, for_ip) ==
    "{" \o (IF for_ip THEN get_ip_standard(path, file_list)
            ELSE get_build_standard(path, file_list)) \o "}"

\* the entries of the constraints and of the ips of one manifest
filelist_constraints(manifest, for_ip) ==
    IF manifest.constraints # None /\ ~for_ip
    THEN [k \in 1..Len(manifest.constraints.value) |->
            <<"{" \o PathStr(resolve(PathJoin(manifest.root_dir,
                                              manifest.constraints.value[k]))) \o "}",
              "{N/A}", "{xdc}">>]
    ELSE <<>>

filelist_ips(manifest, for_ip) ==
    IF manifest.ips # None /\ ~for_ip
    THEN [k \in 1..Len(manifest.ips.value) |->
            <<"{" \o PathStr(resolve(PathJoin(
                        PathJoin(manifest.root_dir,
                                 <<"i", "p", "/">> \o manifest.ips.value[k]),
                        manifest.ips.value[k] \o <<".", "x", "c", "i">>))) \o "}",
              "{N/A}", "{N/A}">>]
    ELSE <<>>

RECURSIVE filelist_lists_from(_, _, _, _)
filelist_lists_from(files, manifest, for_ip, j) ==
    IF j > Len(manifest.file_lists) THEN Return(files)
    ELSE LET file_list == manifest.file_lists[j]
             lib_name == get_lib_name(file_list, manifest.name)
             dir == get_source_dir(manifest, file_list.kind)
         IN  IF lib_name.type = "raise" THEN lib_name
             ELSE IF file_list.kind = "tb"
             THEN filelist_lists_from(files, manifest, for_ip, j + 1)
             ELSE IF file_list.files = None THEN Raise("TypeError", file_list.kind)
             ELSE IF file_list.files.value # <<>> /\ dir.type = "raise" THEN dir
             ELSE filelist_lists_from(
                    files \o [k \in 1..Len(file_list.files.value) |->
                                <<"{" \o PathStr(resolve(PathJoin(dir.value,
                                                  file_list.files.value[k]))) \o "}",
                                  "{" \o lib_name.value \o "}",
                                  get_standard(file_list.files.value[k], file_list,
                                               for_ip)>>],
                    manifest, for_ip, j + 1)

RECURSIVE filelist_blocks_from(_, _, _, _, _)
filelist_blocks_from(files, disk, blk_dirs, for_ip, i) ==
    IF i > Len(blk_dirs) THEN Return(PyList(files))
    ELSE LET manifest == read_manifest(disk, blk_dirs[i])
             r == filelist_lists_from(files, manifest.value, for_ip, 1)
         IN  IF manifest.type = "raise" THEN manifest
             ELSE IF r.type = "raise" THEN r
             ELSE filelist_blocks_from(
                    r.value \o filelist_constraints(manifest.value, for_ip)
                            \o filelist_ips(manifest.value, for_ip),
                    disk, blk_dirs, for_ip, i + 1)

generate_filelist(disk, for_ip) ==
    filelist_blocks_from(<<>>, disk, read_blocks(disk), for_ip, 1)

(***************************************************************************)
(* vunit_helper.add_files_from and add_files_to_lib.  The VUnit object is  *)
(* the simulator it runs and the libraries added to it, each the name, the *)
(* source files and the compile options given to it.                       *)
(***************************************************************************)
to_vunit_vhdl_standard(standard) ==
    IF standard = "VHDL" THEN "93"
    ELSE IF standard = "VHDL 2008" THEN "2008"
    ELSE "UNSPECIFIED_STANDARD"

\* a referenced file that holds a testbench entity (what parsing it shows)
is_testbench(file) == Head(file) = "t"

\* add_files_to_lib: the source files added to the library
add_files_to_lib(file_list, manifest, as_ref, vu) ==
    LET vhdl_standard == IF vu.simulator_name = "ghdl" THEN "2008"
                         ELSE to_vunit_vhdl_standard(file_list.standard)
        dir == get_source_dir(manifest, file_list.kind)
        added == SelectSeq(file_list.files.value,
                           LAMBDA file :
                              /\ suffix(file) \notin {".svh", ".vh"}
                              /\ ~(/\ as_ref /\ file_list.kind = "tb"
                                   /\ suffix(file) = ".vhd"
                                   /\ is_testbench(file)))
    IN  IF file_list.files = None THEN Return(<<>>)
        ELSE IF file_list.files.value # <<>> /\ dir.type = "raise" THEN dir
        ELSE Return([k \in 1..Len(added) |->
                        [path |-> PathStr(PathJoin(dir.value, added[k])),
                         vhdl_standard |-> vhdl_standard]])

\* the compile options add_files_from gives the library of one file list
compile_options(file_list, args) ==
    (IF file_list.kind = "dsn" THEN <<"modelsim.vcom_flags -check_synthesis">>
     ELSE IF file_list.kind = "tb" THEN <<"ghdl.a_flags -frelaxed">>
     ELSE <<>>)
    \o <<"rivierapro.vcom_flags -coverage", "modelsim.vcom_flags +cover=sbcexf">>
    \o (IF ~args.no_optimization THEN <<"rivierapro.vcom_flags -O3">> ELSE <<>>)

\* the loop over manifest.file_lists from file list j on: what is returned
\* or raised, and the VUnit object as the loop leaves it
RECURSIVE add_lists_from(_, _, _, _, _)
add_lists_from(vu, manifest, as_ref, args, j) ==
    IF j > Len(manifest.file_lists) THEN [result |-> Return(vu), vu |-> vu]
    ELSE LET file_list == manifest.file_lists[j]
             name == get_lib_name(file_list, manifest.name)
             files == add_files_to_lib(file_list, manifest, as_ref, vu)
             lib(sources, options) ==
                [name |-> name.value, files |-> sources, options |-> options]
             with(l) == [vu EXCEPT !.libraries = Append(@, l)]
         IN  IF name.type = "raise" THEN [result |-> name, vu |-> vu]
             ELSE IF files.type = "raise"
             THEN [result |-> files, vu |-> with(lib(<<>>, <<>>))]
             ELSE add_lists_from(with(lib(files.value, compile_options(file_list, args))),
                                 manifest, as_ref, args, j + 1)

\* add_files_from skipping no block
add_files_from_every_block(blk_dir, vu, args, root_dir, disk) ==
    LET as_ref == ~is_relative_to(resolve(Path(blk_dir)), Path(root_dir))
        manifest == read_manifest(disk, blk_dir)
    IN  IF manifest.type = "raise" THEN [result |-> manifest, vu |-> vu]
        ELSE add_lists_from(vu, manifest.value, as_ref, args, 1)

add_files_from(blk_dir, vu, args, root_dir, disk) ==
    LET as_ref == ~is_relative_to(resolve(Path(blk_dir)), Path(root_dir))
        manifest == read_manifest(disk, blk_dir)
    IN  IF manifest.type = "raise" THEN [result |-> manifest, vu |-> vu]
        ELSE IF /\ args.simulator # None
                /\ ~list_contains(manifest.value.supported_simulators,
                                  args.simulator.value)
        THEN [result |-> Return(vu), vu |-> vu]
        ELSE add_lists_from(vu, manifest.value, as_ref, args, 1)

\* VUnit.from_args: the simulator is the selected one, or the one installed
VUnit_from_args(args) ==
    [args |-> args,
     simulator_name |-> IF args.simulator = PyStr("ghdl") THEN "ghdl" ELSE "modelsim",
     libraries |-> <<>>]

(***************************************************************************)
(* The test status file: override_read_results.dump writes it and          *)
(* read_status_txt reads it.  A test name, and a line of the file, is the  *)
(* sequence of its characters; a status is a string.                       *)
(***************************************************************************)
\* the statuses dump orders by, in its order
OrderedStatuses == <<"failed", "passed", "skipped", "running">>

\* {test: result for test, result in all_tests.items() if result ...}: the
\* k-th of the five dicts dump builds
dump_selection(all_tests, k) ==
    PyDict(SelectSeq(all_tests.value,
                     LAMBDA item :
                        IF k <= Len(OrderedStatuses)
                        THEN item.value = OrderedStatuses[k]
                        ELSE \A i \in 1..Len(OrderedStatuses) :
                                item.value # OrderedStatuses[i]))

\* the k-th ordered_tests.update(...) of dump
dump_update(ordered_tests, all_tests, k) ==
    dict_update(ordered_tests, dump_selection(all_tests, k))

\* the characters of a status, as an f-string writes them, and of a
\* simulator name, as a path holds them
Chars(status) ==
    CASE status = "failed" -> <<"f", "a", "i", "l", "e", "d">>
      [] status = "passed" -> <<"p", "a", "s", "s", "e", "d">>
      [] status = "skipped" -> <<"s", "k", "i", "p", "p", "e", "d">>
      [] status = "running" -> <<"r", "u", "n", "n", "i", "n", "g">>
      [] status = "msim" -> <<"m", "s", "i", "m">>
      [] status = "qsim" -> <<"q", "s", "i", "m">>
      [] status = "ghdl" -> <<"g", "h", "d", "l">>

\* f"{result} : {test}\n"
status_line(test, result) ==
    Chars(result) \o <<" ", ":", " ">> \o test \o <<"\n">>

\* the lines the loop over ordered_tests.items() writes
status_lines(ordered_tests) ==
    [i \in 1..Len(ordered_tests.value) |->
        status_line(ordered_tests.value[i].key, ordered_tests.value[i].value)]

\* str.split(sep) of a one-character separator
RECURSIVE split_from(_, _, _, _)
split_from(chars, sep, part, parts) ==
    IF chars = <<>> THEN Append(parts, part)
    ELSE IF Head(chars) = sep
         THEN split_from(Tail(chars), sep, <<>>, Append(parts, part))
         ELSE split_from(Tail(chars), sep, Append(part, Head(chars)), parts)

split(chars, sep) == split_from(chars, sep, <<>>, <<>>)

\* str.strip()
Whitespace == {" ", "\n", "\t", "\r"}

RECURSIVE lstrip(_)
lstrip(chars) ==
    IF chars # <<>> /\ Head(chars) \in Whitespace THEN lstrip(Tail(chars)) ELSE chars

RECURSIVE rstrip(_)
rstrip(chars) ==
    IF chars # <<>> /\ chars[Len(chars)] \in Whitespace
    THEN rstrip(SubSeq(chars, 1, Len(chars) - 1))
    ELSE chars

strip(chars) == rstrip(lstrip(chars))

\* re.split(r"\.(?=[^0-9])", chars): split at every period that another
\* character which is no digit follows
Digits == {"0", "1", "2", "3", "4", "5", "6", "7", "8", "9"}

RECURSIVE re_split_from(_, _, _, _)
re_split_from(chars, i, part, parts) ==
    IF i > Len(chars) THEN Append(parts, part)
    ELSE IF chars[i] = "." /\ i < Len(chars) /\ chars[i + 1] \notin Digits
         THEN re_split_from(chars, i + 1, <<>>, Append(parts, part))
         ELSE re_split_from(chars, i + 1, Append(part, chars[i]), parts)

re_split(chars) == re_split_from(chars, 1, <<>>, <<>>)

\* ".".join(parts)
RECURSIVE join(_)
join(parts) ==
    IF parts = <<>> THEN <<>>
    ELSE IF Len(parts) = 1 THEN parts[1]
    ELSE parts[1] \o <<".">> \o join(Tail(parts))

\* the ValueError of unpacking a list of n values into two names
unpack_error(n) ==
    Raise("ValueError",
          IF n > 2 THEN "too many values to unpack (expected 2)"
          ELSE "not enough values to unpack (expected 2, got 1)")

\* the loop over config_strings: row[config] = val
RECURSIVE row_configs(_, _, _)
row_configs(row, config_strings, i) ==
    IF i > Len(config_strings) THEN Return(row)
    ELSE LET pieces == split(config_strings[i], "=")
         IN  IF Len(pieces) # 2 THEN unpack_error(Len(pieces))
             ELSE row_configs(dict_setitem(row, Str(pieces[1]), Str(pieces[2])),
                              config_strings, i + 1)

\* the row read_status_txt builds of one line
status_row(line) ==
    LET pieces == split(line, ":")
    IN  IF Len(pieces) # 2 THEN unpack_error(Len(pieces))
        ELSE LET status == pieces[1]
                 full_test == strip(pieces[2])
                 portions == re_split(full_test)
                 n == Len(portions)
                 row == dict_setitem(PyDict(<<>>), "status", Str(status))
                 tested ==
                    IF n > 3
                    THEN row_configs(
                            dict_setitem(row, "test",
                                Str(join(SubSeq(portions, 1, n - 2))
                                      \o <<".">> \o portions[n])),
                            split(portions[n - 1], ","), 1)
                    ELSE Return(dict_setitem(row, "test", Str(full_test)))
             IN  IF tested.type = "raise" THEN tested
                 ELSE Return(dict_setitem(tested.value, "full_test", Str(full_test)))

RECURSIVE status_rows(_, _, _)
status_rows(rows, lines, i) ==
    IF i > Len(lines) THEN Return(PyList(rows))
    ELSE LET row == status_row(lines[i])
         IN  IF row.type = "raise" THEN row
             ELSE status_rows(Append(rows, row.value), lines, i + 1)

\* read_status_txt(status_txt_path) of a file with these lines
read_status_txt(lines) == status_rows(<<>>, lines, 1)

(***************************************************************************)
(* setup_vunit: the thread count is throttled to the cores of the machine  *)
(* and to the licenses available, the blocks are added, and the IP of a    *)
(* Vivado project is added from a compile-order file that is kept between  *)
(* runs.  The files that exist are a set of paths.                         *)
(***************************************************************************)
\* str.lower() of an answer typed at a prompt
lower(answer) ==
    CASE answer = "Y" -> "y"
      [] answer = "YES" -> "yes"
      [] answer = "N" -> "n"
      [] OTHER -> answer

\* yes_input(prompt), given what the user types
yes_input(answer) == lower(answer) \in {"yes", "y"}

\* the licenses assumed when lmstat could not be run or read
AssumedLicenses == 8

\* get_num_licenses_available(simulator_install_dir), given what running
\* lmutil lmstat gives: it is missing, it fails, its output has no line
\* for vsim, the line does not hold the two totals, or it holds them
get_num_licenses_available(lmstat) ==
    IF lmstat.outcome \in {"FileNotFoundError", "returncode", "no vsim line", "no match"}
    THEN AssumedLicenses
    ELSE lmstat.num_total - lmstat.num_used

\* the throttling of setup_vunit with the licenses compared to the threads
\* requested
num_threads_by_request(args, num_cores, lmstat, answer) ==
    LET cored == IF args.num_threads > num_cores THEN num_cores ELSE args.num_threads
        num_licenses_available == get_num_licenses_available(lmstat)
    IN  IF args.simulator # PyStr("msim") THEN cored
        ELSE IF num_licenses_available = 0 THEN 1
        ELSE IF num_licenses_available < args.num_threads
             THEN IF args.no_prompts \/ yes_input(answer)
                  THEN num_licenses_available
                  ELSE cored
        ELSE cored

\* args.num_threads after the throttling of setup_vunit
num_threads(args, num_cores, lmstat, answer) ==
    LET cored == IF args.num_threads > num_cores THEN num_cores ELSE args.num_threads
        num_licenses_available == get_num_licenses_available(lmstat)
    IN  IF args.simulator # PyStr("msim") THEN cored
        ELSE IF num_licenses_available = 0 THEN 1
        ELSE IF num_licenses_available < cored
             THEN IF args.no_prompts \/ yes_input(answer)
                  THEN num_licenses_available
                  ELSE cored
        ELSE cored

\* Path(output_path) / "project_ip/compile_order.txt"
compile_order_file(output_path) ==
    PathJoin(PathJoin(output_path, <<"p", "r", "o", "j", "e", "c", "t", "_", "i", "p">>),
             <<"c", "o", "m", "p", "i", "l", "e", "_", "o", "r", "d", "e", "r",
               ".", "t", "x", "t">>)

\* clear_ip_search(output_path): the files that exist afterwards
clear_ip_search(files, output_path) == files \ {compile_order_file(output_path)}

\* add_project_ip that asks Vivado for the compile order on every call
add_project_ip_uncached(files, project_file, output_path, clean, vivado_ok) ==
    LET file == PathJoin(output_path, <<"c", "o", "m", "p", "i", "l", "e", "_", "o", "r",
                                        "d", "e", "r", ".", "t", "x", "t">>)
    IN  IF vivado_ok
        THEN [result |-> Return(None), files |-> files \cup {file}, created |-> TRUE]
        ELSE [result |-> Raise("CalledProcessError", "vivado"), files |-> files,
              created |-> TRUE]

\* add_project_ip(vunit_obj, project_file, output_path, vivado_path, clean):
\* its result, the files that exist afterwards, and whether it called
\* create_compile_order_file, which runs Vivado and either writes the file
\* or fails.  The source files it adds to vunit_obj are those the file
\* names, which the files as a set of paths do not tell.
add_project_ip(files, project_file, output_path, clean, vivado_ok) ==
    LET file == PathJoin(output_path, <<"c", "o", "m", "p", "i", "l", "e", "_", "o", "r",
                                        "d", "e", "r", ".", "t", "x", "t">>)
    IN  IF clean \/ file \notin files
        THEN IF vivado_ok
             THEN [result |-> Return(None), files |-> files \cup {file}, created |-> TRUE]
             ELSE [result |-> Raise("CalledProcessError", "vivado"), files |-> files,
                   created |-> TRUE]
        ELSE [result |-> Return(None), files |-> files, created |-> FALSE]

\* add_vivado_ip(vunit_obj, output_path, project_file, vivado_path)
add_vivado_ip(files, output_path, project_file, vivado_ok) ==
    IF project_file # None /\ Path(project_file.value) \notin files
    THEN [result |-> Raise("SystemExit", "1"), files |-> files, created |-> FALSE]
    ELSE IF project_file # None
         THEN add_project_ip(files, project_file,
                             PathJoin(output_path,
                                      <<"p", "r", "o", "j", "e", "c", "t", "_", "i", "p">>),
                             FALSE, vivado_ok)
         ELSE [result |-> Return(None), files |-> files, created |-> FALSE]

\* the loop of setup_vunit over blk_dirs
RECURSIVE setup_blocks_from(_, _, _, _, _, _)
setup_blocks_from(vu, blk_dirs, args, root_dir, disk, i) ==
    IF i > Len(blk_dirs) THEN [result |-> Return(vu), vu |-> vu]
    ELSE LET added == add_files_from(blk_dirs[i], vu, args, root_dir, disk)
         IN  IF added.result.type = "raise" THEN added
             ELSE setup_blocks_from(added.vu, blk_dirs, args, root_dir, disk, i + 1)

\* args.output_path / "vivado_libs" / args.simulator
vivado_libs(args) ==
    PathJoin(PathJoin(args.output_path, <<"v", "i", "v", "a", "d", "o", "_", "l", "i", "b", "s">>),
             Chars(args.simulator.value))

\* setup_vunit(args, blk_dirs, use_vivado_ip, vivado_project) on a machine
\* with num_cores cores where a simulator is installed: what it returns or
\* raises, args and the files afterwards, and whether the compile order was
\* created
setup_vunit(args, blk_dirs, use_vivado_ip, vivado_project, base_dir, host, disk, answer, vivado_ok) ==
    LET WithIp(throttled, blocks, ip) ==
            [result |-> IF ip.result.type = "raise" THEN ip.result ELSE Return(blocks.vu),
             args |-> throttled, vu |-> blocks.vu, files |-> ip.files,
             created |-> ip.created]
        AfterBlocks(throttled, blocks) ==
            IF blocks.result.type = "raise"
            THEN [result |-> blocks.result, args |-> throttled, vu |-> blocks.vu,
                  files |-> host.files, created |-> FALSE]
            ELSE IF use_vivado_ip /\ args.simulator # None /\ args.simulator # PyStr("ghdl")
            THEN WithIp(throttled, blocks,
                        add_vivado_ip(IF args.reload_project
                                      THEN clear_ip_search(host.files, vivado_libs(throttled))
                                      ELSE host.files,
                                      vivado_libs(throttled), vivado_project, vivado_ok))
            ELSE [result |-> Return(blocks.vu), args |-> throttled, vu |-> blocks.vu,
                  files |-> host.files, created |-> FALSE]
        AfterThrottling(throttled) ==
            AfterBlocks(throttled,
                        setup_blocks_from(VUnit_from_args(throttled), blk_dirs, throttled,
                                          base_dir, disk, 1))
    IN  AfterThrottling(
            [args EXCEPT
               !.num_threads = num_threads(args, host.num_cores, host.lmstat, answer),
               !.output_path = PathJoin(Path(base_dir),
                                        <<"s", "c", "r", "a", "t", "c", "h", "/",
                                          "v", "u", "n", "i", "t", "_", "o", "u", "t">>),
               !.unique_sim = IF args.simulator = PyStr("riviera") THEN TRUE ELSE @])

(***************************************************************************)
(* The inputs: parsed manifest documents and root directories.             *)
(* A manifest_dict is a function from the keys it holds to their values.   *)
(* Six families of documents are drawn , each varying the keys that       *)
(* Manifest.__init__ and the accessors read together, the others absent.   *)
(***************************************************************************)
RecognizedKinds == {"dsn", "tb", "self", "none"}
\* a kind that FileList.kinds does not know
DeclaredKinds == RecognizedKinds \cup {"sim"}
Standards == {"VHDL", "VHDL 2008"}
BlockNames == {"x", "x_dsn", "y"}
SimulatorNames == {"msim", "msim_free", "ghdl", "qsim", "xsim", "vcs"}
FileNames == {<<"a">>, <<"h", "/", "b">>}
RootDirs == {<<"/">>, <<"/", "w">>, <<"/", "w", "/", "b", "l", "k">>}
FolderStructureNames == {"src_dsn", "hdl_sim", "flat"}

SeqsUpTo(S, n) == UNION {[1..k -> S] : k \in 0..n}
IsInjective(s) == \A i, j \in 1..Len(s) : s[i] = s[j] => i = j

\* the values of one kind under `files`: null, or a list of file names
FilesValues == {None} \cup {PyList(l) : l \in SeqsUpTo(FileNames, MaxFiles)}

\* the number of file names in the first i items of a `files` mapping
RECURSIVE CountFiles(_, _)
CountFiles(items, i) ==
    IF i = 0 THEN 0
    ELSE CountFiles(items, i - 1)
         + (IF items[i].value = None THEN 0 ELSE Len(items[i].value.value))

\* the `files` mappings declaring up to MaxKinds kinds of K, in every order,
\* each with a value of V, holding up to MaxFiles file names in all
FilesDicts(K, V) ==
    UNION {{PyDict(items) :
                items \in {it \in {[i \in 1..Len(ks) |-> [key |-> ks[i], value |-> vs[i]]] :
                                      vs \in [1..Len(ks) -> V]} :
                              CountFiles(it, Len(ks)) <= MaxFiles}} :
           ks \in {s \in SeqsUpTo(K, MaxKinds) : IsInjective(s)}}

\* the `standards` values: null, or a mapping of some of dsn, tb
StandardsValues ==
    {None} \cup
    UNION {{PyDict([i \in 1..Len(ks) |-> [key |-> ks[i], value |-> vs[i]]]) :
                vs \in [1..Len(ks) -> Standards]} :
           ks \in {<<>>, <<"dsn">>, <<"tb">>, <<"dsn", "tb">>}}

\* a key that may be absent: no entry, or the key with a value of S
Optional(k, S) == {<<>>} \cup {k :> v : v \in S}

OneFile == PyList(<<<<"a">>>>)

\* documents that vary the declared kinds, `standard` and `standards`
StandardManifests ==
    {[name |-> "x", files |-> f] @@ sd @@ sds :
        f \in FilesDicts(DeclaredKinds, {OneFile}),
        sd \in Optional("standard", Standards),
        sds \in Optional("standards", StandardsValues)}

\* documents that vary the declared kinds and `folder_structure`
DirectoryManifests ==
    {[name |-> "x", files |-> f] @@ fs :
        f \in FilesDicts(DeclaredKinds, {OneFile}),
        fs \in Optional("folder_structure", FolderStructureNames)}

\* documents that vary the file lists, with and without a folder structure
FileManifests ==
    {[name |-> "x", files |-> f] @@ fs :
        f \in FilesDicts(RecognizedKinds, FilesValues),
        fs \in Optional("folder_structure", {"src_dsn"})}

\* documents that vary `name`, `supported_simulators` and `max_threads`
SimulatorManifests ==
    {[name |-> n, files |-> PyDict(<<[key |-> "dsn", value |-> OneFile]>>)] @@ ss @@ mt :
        n \in BlockNames,
        ss \in Optional("supported_simulators",
                        {PyList(l) : l \in SeqsUpTo(SimulatorNames, MaxSims)}),
        mt \in Optional("max_threads", {1, 8})}

\* documents that may lack the keys `name` and `files`, with and without a
\* folder structure
IncompleteManifests ==
    {n @@ f @@ fs :
        n \in Optional("name", {"x"}),
        f \in Optional("files", {PyDict(<<[key |-> "dsn", value |-> OneFile]>>)}),
        fs \in Optional("folder_structure", {"src_dsn", "flat"})}

\* documents that vary the five optional keys with a default, each absent
\* or present whatever the others are
OptionalManifests ==
    {[name |-> "x", files |-> PyDict(<<[key |-> "dsn", value |-> OneFile]>>)]
            @@ ss @@ mt @@ b @@ c @@ ip :
        ss \in Optional("supported_simulators", {PyList(<<>>), PyList(<<"xsim">>)}),
        mt \in Optional("max_threads", {1, 5}),
        b \in Optional("blocks", {None, PyList(<<>>), PyList(<<"b">>)}),
        c \in Optional("constraints", {PyList(<<"c">>)}),
        ip \in Optional("ips", {PyList(<<>>)})}

\* the file names of a block: a Verilog header and a VHDL file that holds a
\* testbench
ToolFiles == PyList(<<<<"h", ".", "v", "h">>, <<"t", ".", "v", "h", "d">>>>)

\* the manifests of the blocks the tools walk: one or two kinds, each with
\* its files or without a list
ToolManifests(name) ==
    {[name |-> name, files |-> f] :
        f \in UNION {{PyDict([i \in 1..Len(ks) |-> [key |-> ks[i], value |-> vs[i]]]) :
                         vs \in [1..Len(ks) -> {None, ToolFiles}]} :
                     ks \in {<<"dsn">>, <<"none">>, <<"tb", "dsn">>}}}

\* the command-line arguments the tools read
ToolArgs ==
    {[simulator |-> s, no_optimization |-> FALSE] :
        s \in {None, PyStr("msim"), PyStr("ghdl")}}
    \cup {[simulator |-> None, no_optimization |-> TRUE]}

Inputs ==
    (StandardManifests \X {<<"/", "w">>})
    \cup (OptionalManifests \X {<<"/", "w">>})
    \cup (IncompleteManifests \X {<<"/", "w">>})
    \cup (DirectoryManifests \X RootDirs)
    \cup (FileManifests \X {<<"/", "w">>})
    \cup (SimulatorManifests \X {<<"/", "w">>})

(***************************************************************************)
(* The state: the arguments of the constructor, the Manifest built from    *)
(* them (None before, and when the constructor raised), the last call and  *)
(* what it returned or raised.                                             *)
(***************************************************************************)
VARIABLES manifest_dict, root_dir, manifest, call, result

(***************************************************************************)
(* Two Manifests side by side: the two documents they are built from, the  *)
(* Manifests (None before they are built), and the list objects their      *)
(* supported_simulators fields refer to, by identity.  Unused, and empty,  *)
(* where one Manifest is looked at alone.                                  *)
(***************************************************************************)
VARIABLES mappings, instances, objects

pair == <<mappings, instances, objects>>

(***************************************************************************)
(* The tools that read manifests: the manifest files on disk, by block     *)
(* directory, and the VUnit object the blocks are added to.  Unused, and   *)
(* empty, where Manifests are looked at on their own.                      *)
(***************************************************************************)
VARIABLES disk, vu

tools == <<disk, vu>>
ToolsUnused == disk = <<>> /\ vu = <<>>

(***************************************************************************)
(* The status of a test run: the status of every test by name, the threads *)
(* that read results, and test_status.txt.  Unused where no test is run.   *)
(***************************************************************************)
VARIABLES all_tests, threads, status_file

reporting == <<all_tests, threads, status_file>>
StatusUnused == all_tests = <<>> /\ threads = <<>> /\ status_file = <<>>

(***************************************************************************)
(* The machine setup_vunit runs on (its cores, what lmstat gives, the      *)
(* files that exist, and whether the last call created the compile order)  *)
(* and the arguments of the run after setup_vunit.  Unused where           *)
(* setup_vunit is not run.                                                 *)
(***************************************************************************)
VARIABLES host, vunit_args

setting == <<host, vunit_args>>
SetupUnused == host = <<>> /\ vunit_args = <<>>

tooling == <<tools, reporting, setting>>

vars == <<manifest_dict, root_dir, manifest, call, result, pair, tooling>>

Init ==
    /\ \E input \in Inputs :
          /\ manifest_dict = input[1]
          /\ root_dir = input[2]
    /\ manifest = None
    /\ call = [op |-> "none"]
    /\ result = None
    /\ mappings = <<>>
    /\ instances = <<>>
    /\ objects = <<>>
    /\ ToolsUnused
    /\ StatusUnused
    /\ SetupUnused

\* manifest = Manifest(manifest_dict, root_dir)
Construct ==
    /\ call.op = "none"
    /\ LET r == Manifest_init(manifest_dict, root_dir)
       IN  /\ manifest' = IF r.type = "return" THEN r.value ELSE None
           /\ result' = IF r.type = "return" THEN Return(None) ELSE r
    /\ call' = [op |-> "Manifest"]
    /\ UNCHANGED <<manifest_dict, root_dir>>
    /\ UNCHANGED <<pair, tooling>>

GetSourceDir(kind) ==
    /\ manifest # None
    /\ call' = [op |-> "get_source_dir", kind |-> kind]
    /\ result' = get_source_dir(manifest, kind)
    /\ UNCHANGED <<manifest_dict, root_dir, manifest>>
    /\ UNCHANGED <<pair, tooling>>

GetPreferredSimulator ==
    /\ manifest # None
    /\ call' = [op |-> "get_preferred_simulator"]
    /\ result' = get_preferred_simulator(manifest)
    /\ UNCHANGED <<manifest_dict, root_dir, manifest>>
    /\ UNCHANGED <<pair, tooling>>

GetMaxThreads ==
    /\ manifest # None
    /\ call' = [op |-> "get_max_threads"]
    /\ result' = get_max_threads(manifest)
    /\ UNCHANGED <<manifest_dict, root_dir, manifest>>
    /\ UNCHANGED <<pair, tooling>>

\* get_all_files taking the file lists out of the Manifest as it reads them
GetAllFiles_draining ==
    /\ manifest # None
    /\ call' = [op |-> "get_all_files"]
    /\ result' = get_all_files(manifest)
    /\ manifest' = [manifest EXCEPT !.file_lists = <<>>]
    /\ UNCHANGED <<manifest_dict, root_dir>>
    /\ UNCHANGED <<pair, tooling>>

GetAllFiles ==
    /\ manifest # None
    /\ call' = [op |-> "get_all_files"]
    /\ result' = get_all_files(manifest)
    /\ UNCHANGED <<manifest_dict, root_dir, manifest>>
    /\ UNCHANGED <<pair, tooling>>

\* manifest.file_lists[i].get_lib_name(blk_name)
GetLibName(i, blk_name) ==
    /\ manifest # None
    /\ i \in 1..Len(manifest.file_lists)
    /\ call' = [op |-> "get_lib_name", file_list |-> i, blk_name |-> blk_name]
    /\ result' = get_lib_name(manifest.file_lists[i], blk_name)
    /\ UNCHANGED <<manifest_dict, root_dir, manifest>>
    /\ UNCHANGED <<pair, tooling>>

Next ==
    \/ Construct
    \/ \E kind \in DeclaredKinds : GetSourceDir(kind)
    \/ GetPreferredSimulator
    \/ GetMaxThreads
    \/ GetAllFiles
    \/ \E i \in 1..MaxKinds, blk_name \in BlockNames : GetLibName(i, blk_name)

Spec == Init /\ [][Next]_vars

(***************************************************************************)
(* Two Manifests built from two documents.  A list is an object: the       *)
(* supported_simulators field of a Manifest refers to the list object of   *)
(* its document, or to the one module-level list DEFAULT_SIMULATORS.       *)
(***************************************************************************)
InstanceIds == {1, 2}
\* the identity of the supported_simulators list of the i-th document
ListOf(i) == IF i = 1 THEN "mappings[1].supported_simulators"
             ELSE "mappings[2].supported_simulators"

\* the object self.supported_simulators is bound to, own being the identity
\* of manifest_dict["supported_simulators"]
supported_simulators_object(mapping, own) ==
    IF "supported_simulators" \in DOMAIN mapping THEN own
    ELSE "DEFAULT_SIMULATORS"

\* documents that vary `name` and `supported_simulators`
InstanceManifests ==
    {[name |-> n, files |-> PyDict(<<[key |-> "dsn", value |-> OneFile]>>)] @@ ss :
        n \in {"x", "y"},
        ss \in Optional("supported_simulators",
                        {PyList(<<>>), PyList(<<"xsim">>)})}

\* the i-th Manifest with the lists its fields refer to in place of the
\* references: the field values a caller observes
ValueOf(insts, objs, i) ==
    [insts[i] EXCEPT !.supported_simulators = PyList(objs[@.object])]

InstancesInit ==
    /\ \E a, b \in InstanceManifests :
          /\ mappings = <<a, b>>
          /\ objects =
                [id \in {"DEFAULT_SIMULATORS"}
                          \cup {ListOf(i) : i \in {i \in InstanceIds :
                                   "supported_simulators" \in DOMAIN <<a, b>>[i]}} |->
                    IF id = "DEFAULT_SIMULATORS" THEN DEFAULT_SIMULATORS
                    ELSE IF id = ListOf(1) THEN a["supported_simulators"].value
                    ELSE b["supported_simulators"].value]
    /\ root_dir = <<"/", "w">>
    /\ instances = <<None, None>>
    /\ call = [op |-> "none"]
    /\ result = None
    /\ manifest_dict = <<>>
    /\ manifest = None
    /\ ToolsUnused
    /\ StatusUnused
    /\ SetupUnused

\* instances[i] = Manifest(mappings[i], root_dir)
ConstructInstance(i) ==
    /\ instances[i] = None
    /\ LET r == Manifest_init(mappings[i], root_dir)
       IN  /\ instances' =
                IF r.type = "return"
                THEN [instances EXCEPT ![i] =
                        [r.value EXCEPT !.supported_simulators =
                            [type |-> "reference",
                             object |-> supported_simulators_object(mappings[i],
                                                                    ListOf(i))]]]
                ELSE instances
           /\ result' = IF r.type = "return" THEN Return(None) ELSE r
    /\ call' = [op |-> "Manifest", instance |-> i]
    /\ UNCHANGED <<manifest_dict, root_dir, manifest, mappings, objects, tooling>>

\* instances[i].supported_simulators.append(sim), by a caller
AppendSimulator(i, sim) ==
    /\ instances[i] # None
    /\ LET id == instances[i].supported_simulators.object
       IN  /\ Len(objects[id]) < MaxListLen
           /\ objects' = [objects EXCEPT ![id] = Append(@, sim)]
    /\ call' = [op |-> "append", instance |-> i]
    /\ result' = Return(None)
    /\ UNCHANGED <<manifest_dict, root_dir, manifest, mappings, instances, tooling>>

\* instances[i].get_preferred_simulator()
InstancePreferredSimulator(i) ==
    /\ instances[i] # None
    /\ call' = [op |-> "get_preferred_simulator", instance |-> i]
    /\ result' = get_preferred_simulator(ValueOf(instances, objects, i))
    /\ UNCHANGED <<manifest_dict, root_dir, manifest, mappings, instances, objects, tooling>>

InstancesNext ==
    \/ \E i \in InstanceIds : ConstructInstance(i)
    \/ \E i \in InstanceIds : AppendSimulator(i, "ghdl")
    \/ \E i \in InstanceIds : InstancePreferredSimulator(i)

InstancesSpec == InstancesInit /\ [][InstancesNext]_vars

(***************************************************************************)
(* The tools run on a project of two block directories, the second outside *)
(* the repository root.                                                    *)
(***************************************************************************)
ToolsInit ==
    /\ \E p \in ToolManifests("x") \cup {NoFile},
          q \in ToolManifests("x_dsn") \cup {NoFile},
          args \in ToolArgs :
          /\ disk = (BlockDirs[1] :> p) @@ (BlockDirs[2] :> q)
          /\ vu = VUnit_from_args(args)
    /\ root_dir = <<"/", "w">>
    /\ call = [op |-> "none"]
    /\ result = None
    /\ manifest_dict = <<>>
    /\ manifest = None
    /\ mappings = <<>>
    /\ instances = <<>>
    /\ objects = <<>>
    /\ StatusUnused
    /\ SetupUnused

ReadManifest(blk_dir) ==
    /\ call' = [op |-> "read_manifest", root_dir |-> blk_dir]
    /\ result' = LET r == read_manifest(disk, blk_dir)
                 IN  IF r.type = "return" THEN Return(r.value) ELSE r
    /\ UNCHANGED <<manifest_dict, root_dir, manifest, pair, tools, reporting, setting>>

GetVhdlLsLibs(vunit_installed) ==
    /\ call' = [op |-> "get_vhdl_ls_libs", vunit_installed |-> vunit_installed]
    /\ result' = get_vhdl_ls_libs(disk, vunit_installed)
    /\ UNCHANGED <<manifest_dict, root_dir, manifest, pair, tools, reporting, setting>>

GetVsgFiles ==
    /\ call' = [op |-> "get_vsg_files"]
    /\ result' = get_vsg_files(disk)
    /\ UNCHANGED <<manifest_dict, root_dir, manifest, pair, tools, reporting, setting>>

GenerateFilelist(for_ip) ==
    /\ call' = [op |-> "generate_filelist", for_ip |-> for_ip]
    /\ result' = generate_filelist(disk, for_ip)
    /\ UNCHANGED <<manifest_dict, root_dir, manifest, pair, tools, reporting, setting>>

\* vu = add_files_from(blk_dir, vu, args, root_dir)
AddFilesFrom(blk_dir) ==
    /\ Len(vu.libraries) < MaxLibraries
    /\ LET r == add_files_from(blk_dir, vu, vu.args, root_dir, disk)
       IN  /\ vu' = r.vu
           /\ result' = r.result
    /\ call' = [op |-> "add_files_from", blk_dir |-> blk_dir, vu |-> vu]
    /\ UNCHANGED <<manifest_dict, root_dir, manifest, pair, disk, reporting, setting>>

ToolsNext ==
    \/ \E blk_dir \in DOMAIN disk : ReadManifest(blk_dir)
    \/ \E vunit_installed \in BOOLEAN : GetVhdlLsLibs(vunit_installed)
    \/ GetVsgFiles
    \/ \E for_ip \in BOOLEAN : GenerateFilelist(for_ip)
    \/ \E blk_dir \in DOMAIN disk : AddFilesFrom(blk_dir)

ToolsSpec == ToolsInit /\ [][ToolsNext]_vars

(***************************************************************************)
(* The threads of a test run, each reading the results of the tests it is  *)
(* handed and dumping the status of all tests to test_status.txt, which    *)
(* one thread at a time can have open, and gen_test_csv reading the file.  *)
(***************************************************************************)
Threads == 1..MaxThreads

\* the names of the tests of a project
TestNames ==
    {<<"l", ".", "a">>, <<"l", ".", "b">>,
     <<"l", ".", "t", ".", "n", "=", "1", ".", "5", ".", "b">>}

\* TestStatus names of a result read
ResultNames == {"passed", "failed", "skipped"}

Closed == 0

\* a thread outside _read_test_results
Idle ==
    [pc |-> "idle", k |-> 0, suite |-> <<>>, ordered_tests |-> PyDict(<<>>),
     attempts |-> 0, written |-> <<>>]

\* after override_read_results(vu): every test running, and dumped
StatusInit ==
    /\ \E test_names \in {s \in SeqsUpTo(TestNames, MaxTests) : s # <<>> /\ IsInjective(s)} :
          /\ all_tests = PyDict([i \in 1..Len(test_names) |->
                                    [key |-> test_names[i], value |-> "running"]])
          /\ status_file =
                [holder |-> Closed,
                 lines |-> [i \in 1..Len(test_names) |->
                              status_line(test_names[i], "running")]]
    /\ threads = [t \in Threads |-> Idle]
    /\ call = [op |-> "none"]
    /\ result = None
    /\ manifest_dict = <<>>
    /\ root_dir = <<>>
    /\ manifest = None
    /\ mappings = <<>>
    /\ instances = <<>>
    /\ objects = <<>>
    /\ ToolsUnused
    /\ SetupUnused

\* _read_test_results_and_write_to_file up to the call of dump: the result
\* of the thread's test suite is read and recorded
ReadTestResults(t, test, name) ==
    /\ threads[t].pc \in {"idle", "returned"}
    /\ dict_contains(all_tests, test)
    /\ dict_getitem(all_tests, test) = "running"
    /\ all_tests' = dict_setitem(all_tests, test, name)
    /\ threads' = [threads EXCEPT ![t] = [Idle EXCEPT !.pc = "update", !.k = 1,
                                                     !.suite = test]]
    /\ UNCHANGED <<manifest_dict, root_dir, manifest, call, result, pair, tools, setting,
                   status_file>>

\* dump: one of the five ordered_tests.update(...)
DumpUpdate(t) ==
    /\ threads[t].pc = "update"
    /\ threads' = [threads EXCEPT
                     ![t].ordered_tests = dump_update(@, all_tests, threads[t].k),
                     ![t].k = IF @ = 5 THEN 0 ELSE @ + 1,
                     ![t].pc = IF threads[t].k = 5 THEN "open" ELSE "update"]
    /\ UNCHANGED <<manifest_dict, root_dir, manifest, call, result, pair, tools, setting,
                   all_tests, status_file>>

\* dump: open(..., "w+") succeeds and truncates the file
Acquire(t) ==
    /\ threads[t].pc = "open"
    /\ status_file.holder = Closed
    /\ status_file' = [holder |-> t, lines |-> <<>>]
    /\ threads' = [threads EXCEPT ![t].pc = "write"]
    /\ UNCHANGED <<manifest_dict, root_dir, manifest, call, result, pair, tools, setting,
                   all_tests>>

\* dump: open raises OSError while another thread has the file open; the
\* loop passes and tries again, without giving up
Open_giving_up(t) ==
    \/ Acquire(t)
    \/ /\ threads[t].pc = "open"
       /\ status_file.holder # Closed
       /\ threads[t].attempts < MaxAttempts
       /\ threads' = [threads EXCEPT ![t].attempts = @ + 1, ![t].pc = "returned"]
       /\ UNCHANGED <<manifest_dict, root_dir, manifest, call, result, pair, tools, setting,
                      all_tests, status_file>>

\* dump: one turn of `while True: try: open ... except OSError: pass`
Open(t) ==
    \/ Acquire(t)
    \/ /\ threads[t].pc = "open"
       /\ status_file.holder # Closed
       /\ threads[t].attempts < MaxAttempts
       /\ threads' = [threads EXCEPT ![t].attempts = @ + 1]
       /\ UNCHANGED <<manifest_dict, root_dir, manifest, call, result, pair, tools, setting,
                      all_tests, status_file>>

\* dump: the lines are written, the file is closed, the loop breaks and
\* dump and _read_test_results_and_write_to_file return
Write(t) ==
    /\ threads[t].pc = "write"
    /\ status_file.holder = t
    /\ status_file' = [holder |-> Closed,
                       lines |-> status_lines(threads[t].ordered_tests)]
    /\ threads' = [threads EXCEPT ![t].pc = "returned",
                                  ![t].written = status_lines(threads[t].ordered_tests)]
    /\ UNCHANGED <<manifest_dict, root_dir, manifest, call, result, pair, tools, setting,
                   all_tests>>

\* gen_test_csv: rows = read_status_txt(TEST_STATUS_TXT)
ReadStatusTxt ==
    /\ status_file.holder = Closed
    /\ call' = [op |-> "read_status_txt", lines |-> status_file.lines]
    /\ result' = read_status_txt(status_file.lines)
    /\ UNCHANGED <<manifest_dict, root_dir, manifest, pair, tools, reporting, setting>>

StatusNext ==
    \/ \E t \in Threads, test \in TestNames, name \in ResultNames :
          ReadTestResults(t, test, name)
    \/ \E t \in Threads : DumpUpdate(t)
    \/ \E t \in Threads : Open(t)
    \/ \E t \in Threads : Write(t)
    \/ ReadStatusTxt

StatusSpec == StatusInit /\ [][StatusNext]_vars

\* the threads are scheduled fairly: a thread that can go on does, and a
\* thread that finds the file closed again and again opens it
FairStatusSpec ==
    /\ StatusSpec
    /\ \A t \in Threads :
          /\ WF_vars(DumpUpdate(t))
          /\ WF_vars(Write(t))
          /\ SF_vars(Acquire(t))

(***************************************************************************)
(* Runs of setup_vunit, one after the other, on one machine: each run      *)
(* parses its own arguments, and the files written under scratch/vunit_out *)
(* stay for the next run.  add_project_ip and clear_ip_search are also     *)
(* called on their own.                                                    *)
(***************************************************************************)
\* BASE_DIR
BaseDir == <<"/", "w">>

\* the Vivado project file
ProjectFile == <<"/", "w", "/", "p", ".", "x", "p", "r">>

\* the simulators selected on the command line
SelectedSimulators == {None, PyStr("msim"), PyStr("ghdl")}

\* what running lmstat can give
Lmstats ==
    {[outcome |-> o, num_total |-> 0, num_used |-> 0] :
        o \in {"FileNotFoundError", "no match"}}
    \cup {[outcome |-> "ok", num_total |-> MaxLicenses, num_used |-> used] :
            used \in 0..MaxLicenses}

\* the parsed command line
SetupArgs ==
    [num_threads : 1..MaxRequested, simulator : SelectedSimulators,
     no_prompts : BOOLEAN, reload_project : BOOLEAN, no_optimization : {FALSE},
     unique_sim : {FALSE}, output_path : {None}]

\* the runs of setup_vunit: every thread count, simulator and answer to
\* the prompt without Vivado IP, and every way to add Vivado IP for one
\* thread
SetupRuns ==
    {[args |-> a, use_vivado_ip |-> FALSE, vivado_project |-> None, answer |-> answer,
      vivado_ok |-> TRUE] :
        a \in {a \in SetupArgs : ~a.reload_project},
        answer \in {"Y", "n"}}
    \cup {[args |-> a, use_vivado_ip |-> TRUE, vivado_project |-> p, answer |-> "n",
           vivado_ok |-> ok] :
            a \in {a \in SetupArgs : a.num_threads = 1 /\ a.no_prompts},
            p \in {None, PyStr(ProjectFile)}, ok \in BOOLEAN}

\* args.output_path / "vivado_libs" / "msim"
VivadoLibs ==
    vivado_libs([output_path |-> PathJoin(Path(BaseDir),
                                          <<"s", "c", "r", "a", "t", "c", "h", "/",
                                            "v", "u", "n", "i", "t", "_", "o", "u", "t">>),
                 simulator |-> PyStr("msim")])

SetupInit ==
    /\ \E num_cores \in 1..MaxCores, lmstat \in Lmstats,
          files \in SUBSET {Path(ProjectFile), compile_order_file(VivadoLibs)},
          q \in {[name |-> "y",
                  files |-> PyDict(<<[key |-> "dsn", value |-> ToolFiles]>>)], NoFile} :
          /\ host = [num_cores |-> num_cores, lmstat |-> lmstat, files |-> files,
                     created |-> FALSE]
          /\ disk = (BlockDirs[1] :>
                       [name |-> "x",
                        files |-> PyDict(<<[key |-> "tb", value |-> ToolFiles]>>)])
                    @@ (BlockDirs[2] :> q)
    /\ vunit_args = None
    /\ vu = <<>>
    /\ root_dir = BaseDir
    /\ call = [op |-> "none"]
    /\ result = None
    /\ manifest_dict = <<>>
    /\ manifest = None
    /\ mappings = <<>>
    /\ instances = <<>>
    /\ objects = <<>>
    /\ StatusUnused

\* vu = setup_vunit(args, blk_dirs, use_vivado_ip, vivado_project)
SetupVunit(run) ==
    \* an answer is typed only at the prompt, and Vivado can fail only when
    \* it is run
    /\ (run.args.simulator # PyStr("msim") \/ run.args.no_prompts) => run.answer = "n"
    /\ run.vivado_project = None => run.vivado_ok
    /\ \E r \in {setup_vunit(run.args, BlockDirs, run.use_vivado_ip, run.vivado_project,
                              root_dir, host, disk, run.answer, run.vivado_ok)} :
          /\ vunit_args' = r.args
          /\ vu' = r.vu
          /\ host' = [host EXCEPT !.files = r.files, !.created = r.created]
          /\ result' = r.result
    /\ call' = [op |-> "setup_vunit", args |-> run.args,
                use_vivado_ip |-> run.use_vivado_ip,
                vivado_project |-> run.vivado_project, answer |-> run.answer,
                files |-> host.files]
    /\ UNCHANGED <<manifest_dict, root_dir, manifest, pair, disk, reporting>>

\* add_project_ip(vunit_obj, project_file, output_path, vivado_path, clean)
AddProjectIp(output_path, clean, vivado_ok) ==
    /\ \E r \in {add_project_ip(host.files, PyStr(ProjectFile), output_path, clean,
                                vivado_ok)} :
          /\ host' = [host EXCEPT !.files = r.files, !.created = r.created]
          /\ result' = r.result
    /\ call' = [op |-> "add_project_ip", output_path |-> output_path, clean |-> clean,
                files |-> host.files]
    /\ UNCHANGED <<manifest_dict, root_dir, manifest, pair, tools, reporting, vunit_args>>

\* clear_ip_search(output_path)
ClearIpSearch(output_path) ==
    /\ host' = [host EXCEPT !.files = clear_ip_search(host.files, output_path),
                            !.created = FALSE]
    /\ result' = Return(None)
    /\ call' = [op |-> "clear_ip_search", output_path |-> output_path, files |-> host.files]
    /\ UNCHANGED <<manifest_dict, root_dir, manifest, pair, tools, reporting, vunit_args>>

SetupNext ==
    \/ \E run \in SetupRuns : SetupVunit(run)
    \/ \E clean, vivado_ok \in BOOLEAN :
          AddProjectIp(PathJoin(VivadoLibs,
                                <<"p", "r", "o", "j", "e", "c", "t", "_", "i", "p">>),
                       clean, vivado_ok)
    \/ ClearIpSearch(VivadoLibs)

SetupSpec == SetupInit /\ [][SetupNext]_vars

(***************************************************************************)
(* Properties.                                                             *)
(***************************************************************************)
Constructed == manifest # None
Declared(kind) == dict_contains(manifest_dict["files"], kind)
Has(key) == key \in DOMAIN manifest_dict
\* the file lists of the Manifest that have the given kind
FileListsOf(kind) ==
    {i \in 1..Len(manifest.file_lists) : manifest.file_lists[i].kind = kind}

\* C1: when the manifest declares kind tb, the Manifest built holds a file
\* list for tb and its standard is "VHDL 2008", whatever `standard` and
\* `standards` hold.
C1_TestbenchStandard ==
    (Constructed /\ Declared("tb")) =>
        /\ FileListsOf("tb") # {}
        /\ \A i \in FileListsOf("tb") :
              manifest.file_lists[i].standard = "VHDL 2008"

\* a Manifest built from a document whose `standard` and `standards` both
\* give tb another standard
C1_Witness ==
    /\ Constructed /\ Declared("tb")
    /\ Has("standard") /\ manifest_dict["standard"] = "VHDL"
    /\ Has("standards") /\ manifest_dict["standards"] # None
    /\ dict_contains(manifest_dict["standards"], "tb")
    /\ dict_getitem(manifest_dict["standards"], "tb") = "VHDL"

\* C2: the file list of every declared kind other than tb has the standard
\* standards[kind] when `standards` is a mapping holding the kind, else the
\* declared `standard`, else "VHDL".
C2_StandardPrecedence ==
    Constructed =>
        \A kind \in DeclaredKinds \ {"tb"} :
            Declared(kind) =>
                /\ FileListsOf(kind) # {}
                /\ \A i \in FileListsOf(kind) :
                      manifest.file_lists[i].standard =
                        CASE Has("standards") /\ manifest_dict["standards"] # None
                                /\ dict_contains(manifest_dict["standards"], kind)
                                -> dict_getitem(manifest_dict["standards"], kind)
                          [] OTHER ->
                                IF Has("standard") THEN manifest_dict["standard"]
                                ELSE "VHDL"

\* a Manifest whose dsn list takes the override and whose self list takes a
\* declared default that is not the global one
C2_Witness ==
    /\ Constructed /\ Declared("dsn") /\ Declared("self")
    /\ Has("standard") /\ manifest_dict["standard"] = "VHDL 2008"
    /\ Has("standards") /\ manifest_dict["standards"] # None
    /\ dict_contains(manifest_dict["standards"], "dsn")
    /\ \E i \in FileListsOf("dsn") : manifest.file_lists[i].standard = "VHDL"
    /\ \E i \in FileListsOf("self") : manifest.file_lists[i].standard = "VHDL 2008"

\* the file list get_lib_name was last called on
CalledFileList == manifest.file_lists[call.file_list]

\* C3: the name get_lib_name returns for a file list of a recognized kind and
\* a block name differs from the names it returns, for the same block name,
\* for file lists of the three other recognized kinds.
C3_LibNamesDistinct ==
    (call.op = "get_lib_name" /\ CalledFileList.kind \in RecognizedKinds) =>
        /\ result.type = "return"
        /\ \A kind \in RecognizedKinds \ {CalledFileList.kind} :
              get_lib_name(FileList_init(kind, CalledFileList.files,
                                         CalledFileList.standard),
                           call.blk_name) # result

\* the library name of kind none for a block whose own name ends in _dsn
C3_Witness ==
    /\ call.op = "get_lib_name"
    /\ CalledFileList.kind = "none"
    /\ call.blk_name = "x_dsn"
    /\ result = Return("x_dsn")

\* C4: get_lib_name returns the block name followed by _dsn, _tb, _lib or
\* nothing for kind dsn, tb, self or none, and the same for every other
\* files and standard of the file list.
C4_LibNameSuffix ==
    (call.op = "get_lib_name" /\ CalledFileList.kind \in RecognizedKinds) =>
        /\ result =
            Return(CASE CalledFileList.kind = "dsn" -> call.blk_name \o "_dsn"
                     [] CalledFileList.kind = "tb" -> call.blk_name \o "_tb"
                     [] CalledFileList.kind = "self" -> call.blk_name \o "_lib"
                     [] CalledFileList.kind = "none" -> call.blk_name)
        /\ \A files \in FilesValues, standard \in Standards :
              get_lib_name(FileList_init(CalledFileList.kind, files, standard),
                           call.blk_name) = result

\* the library name of a file list of kind self
C4_Witness ==
    /\ call.op = "get_lib_name"
    /\ CalledFileList.kind = "self"
    /\ call.blk_name = "y"
    /\ result = Return("y_lib")

\* the `files` mapping of the document, its i-th kind and that kind's value
FilesItems == manifest_dict["files"].value
\* the number of file names declared before the i-th kind
FilesBefore(i) == CountFiles(FilesItems, i - 1)

\* C5: when get_all_files returns, it returns, for the declared kinds in
\* their order and for the file names of each in their order, the source
\* directory of the kind joined with the file name, duplicates included:
\* as many paths as file names.  It returns whenever every declared kind
\* has a list of file names and a source directory.
C5_AllFiles ==
    call.op = "get_all_files" =>
        /\ result.type = "return" =>
              /\ result.value.type = "list"
              /\ Len(result.value.value) = CountFiles(FilesItems, Len(FilesItems))
              /\ \A i \in 1..Len(FilesItems) :
                    /\ FilesItems[i].value # None
                    /\ \A j \in 1..Len(FilesItems[i].value.value) :
                          result.value.value[FilesBefore(i) + j] =
                            PathJoin(get_source_dir(manifest, FilesItems[i].key).value,
                                     FilesItems[i].value.value[j])
        /\ (\A i \in 1..Len(FilesItems) :
                /\ FilesItems[i].value # None
                /\ get_source_dir(manifest, FilesItems[i].key).type = "return")
              => result.type = "return"

\* three paths of two file lists in two directories, the first list naming
\* the same file twice
C5_Witness ==
    /\ call.op = "get_all_files"
    /\ result.type = "return"
    /\ Len(FilesItems) = 2
    /\ Len(result.value.value) = 3
    /\ result.value.value[1] = result.value.value[2]
    /\ result.value.value[3].parts # result.value.value[1].parts
    /\ Len(result.value.value[3].parts) > Len(result.value.value[1].parts)

\* the Manifest with an empty list of file names in place of every absent one
WithEmptyLists(m) ==
    [m EXCEPT !.file_lists =
        [i \in 1..Len(m.file_lists) |->
            IF m.file_lists[i].files = None
            THEN [m.file_lists[i] EXCEPT !.files = PyList(<<>>)]
            ELSE m.file_lists[i]]]

\* C6: get_all_files of a Manifest with an absent (null) list of file names
\* completes and returns what it returns with an empty list in its place.
C6_AbsentFilesAsEmpty ==
    (/\ call.op = "get_all_files"
     /\ \E i \in 1..Len(manifest.file_lists) : manifest.file_lists[i].files = None
     /\ get_all_files(WithEmptyLists(manifest)).type = "return") =>
        result = get_all_files(WithEmptyLists(manifest))

\* C7: with no folder_structure key, get_source_dir returns root_dir for
\* every kind.
C7_NoFolderStructure ==
    (call.op = "get_source_dir" /\ ~Has("folder_structure")) =>
        result = Return(manifest.root_dir)

\* the source directory of kind none, which no convention defines, in a
\* manifest without folder_structure
C7_Witness ==
    /\ call.op = "get_source_dir" /\ ~Has("folder_structure")
    /\ call.kind = "none"
    /\ Len(manifest.root_dir.parts) = 2
    /\ result = Return(manifest.root_dir)

\* root_dir followed by the given components
Under(p, components) == [root |-> p.root, parts |-> p.parts \o components]

\* C8: under the src_dsn convention get_source_dir gives root_dir/src/dsn
\* for dsn, root_dir/src/tb for tb and root_dir for self.
C8_SrcDsn ==
    (/\ call.op = "get_source_dir"
     /\ Has("folder_structure") /\ manifest_dict["folder_structure"] = "src_dsn") =>
        /\ call.kind = "dsn" =>
              result = Return(Under(manifest.root_dir,
                                    <<<<"s", "r", "c">>, <<"d", "s", "n">>>>))
        /\ call.kind = "tb" =>
              result = Return(Under(manifest.root_dir,
                                    <<<<"s", "r", "c">>, <<"t", "b">>>>))
        /\ call.kind = "self" => result = Return(manifest.root_dir)

\* the testbench directory of a src_dsn block two levels deep
C8_Witness ==
    /\ call.op = "get_source_dir"
    /\ Has("folder_structure") /\ manifest_dict["folder_structure"] = "src_dsn"
    /\ call.kind = "tb"
    /\ result.type = "return"
    /\ result.value.parts = <<<<"w">>, <<"b", "l", "k">>, <<"s", "r", "c">>, <<"t", "b">>>>

\* the directory a path names: its parts with every ".." applied (the parent
\* of the filesystem root being the root itself)
RECURSIVE Resolve(_, _)
Resolve(parts, done) ==
    IF parts = <<>> THEN done
    ELSE IF Head(parts) = <<".", ".">>
         THEN Resolve(Tail(parts),
                      IF done = <<>> THEN <<>> ELSE SubSeq(done, 1, Len(done) - 1))
         ELSE Resolve(Tail(parts), Append(done, Head(parts)))

Directory(p) == Resolve(p.parts, <<>>)
ParentOf(d) == IF d = <<>> THEN <<>> ELSE SubSeq(d, 1, Len(d) - 1)
IsSiblingOf(d, block) ==
    /\ block # <<>> /\ d # <<>>
    /\ d # block
    /\ ParentOf(d) = ParentOf(block)
IsAtOrBeneath(d, block) ==
    /\ Len(d) >= Len(block)
    /\ SubSeq(d, 1, Len(block)) = block

CallUnderHdlSim ==
    /\ call.op = "get_source_dir"
    /\ Has("folder_structure") /\ manifest_dict["folder_structure"] = "hdl_sim"

\* C9 as stated, for a block that is not the filesystem root: under hdl_sim,
\* tb and self resolve to the block root and dsn resolves to a sibling
\* directory of the block, neither the block root nor a directory beneath it.
C9_DsnInSibling ==
    (CallUnderHdlSim /\ manifest.root_dir.parts # <<>>) =>
        /\ call.kind \in {"tb", "self"} => result = Return(manifest.root_dir)
        /\ call.kind = "dsn" =>
              /\ result.type = "return"
              /\ IsSiblingOf(Directory(result.value), Directory(manifest.root_dir))
              /\ ~IsAtOrBeneath(Directory(result.value), Directory(manifest.root_dir))

\* C9 amended: under hdl_sim, tb and self resolve to the block root and dsn
\* resolves to root_dir/.., the parent directory of the block: never a
\* sibling of the block, and neither the block root nor a directory beneath
\* it unless root_dir is the filesystem root.
C9_DsnInParent ==
    CallUnderHdlSim =>
        /\ call.kind \in {"tb", "self"} => result = Return(manifest.root_dir)
        /\ call.kind = "dsn" =>
              /\ result = Return(Under(manifest.root_dir, <<<<".", ".">>>>))
              /\ Directory(result.value) = ParentOf(Directory(manifest.root_dir))
              /\ ~IsSiblingOf(Directory(result.value), Directory(manifest.root_dir))
              /\ manifest.root_dir.parts # <<>> =>
                    ~IsAtOrBeneath(Directory(result.value),
                                   Directory(manifest.root_dir))

\* the design directory of the hdl_sim block /w/blk is /w
C9_Witness ==
    /\ CallUnderHdlSim
    /\ call.kind = "dsn"
    /\ manifest.root_dir.parts = <<<<"w">>, <<"b", "l", "k">>>>
    /\ result.type = "return"
    /\ Directory(result.value) = <<<<"w">>>>

\* the simulators the Manifest supports, as a set
Supported ==
    {manifest.supported_simulators.value[i] :
        i \in 1..Len(manifest.supported_simulators.value)}

\* C10: get_preferred_simulator returns the first of ghdl, qsim, msim,
\* msim_free, xsim that supported_simulators holds, whatever the order of
\* supported_simulators, and returns None when it holds none of them.
C10_PreferredSimulator ==
    call.op = "get_preferred_simulator" =>
        result =
            CASE "ghdl" \in Supported -> Return(PyStr("ghdl"))
              [] "qsim" \in Supported -> Return(PyStr("qsim"))
              [] "msim" \in Supported -> Return(PyStr("msim"))
              [] "msim_free" \in Supported -> Return(PyStr("msim_free"))
              [] "xsim" \in Supported -> Return(PyStr("xsim"))
              [] OTHER -> Return(None)

\* supported_simulators [xsim, msim] gives msim
C10_Witness ==
    /\ call.op = "get_preferred_simulator"
    /\ manifest.supported_simulators = PyList(<<"xsim", "msim">>)
    /\ result = Return(PyStr("msim"))

\* the keys `name` and `files` that the document lacks
MissingRequired == {"name", "files"} \ DOMAIN manifest_dict
\* the document names a folder structure that FolderStructure does not know
UnknownFolderStructure ==
    /\ Has("folder_structure")
    /\ manifest_dict["folder_structure"] \notin DOMAIN folder_structures

\* C11 as stated: constructing a Manifest from a document that lacks `name`
\* or `files` raises MissingRequiredField for a field the document lacks,
\* and no Manifest is built.
C11_MissingRequiredField ==
    (call.op = "Manifest" /\ MissingRequired # {}) =>
        /\ manifest = None
        /\ result.type = "raise"
        /\ result.value.exc = "MissingRequiredField"
        /\ result.value.arg \in MissingRequired

\* C11 amended: constructing a Manifest from a document that lacks `name` or
\* `files` builds no Manifest and raises KeyError: for name when name is
\* lacking; otherwise for the unknown folder structure when the document
\* names one; otherwise for files.
C11_MissingKeyError ==
    (call.op = "Manifest" /\ MissingRequired # {}) =>
        /\ manifest = None
        /\ result =
              CASE ~Has("name") -> Raise("KeyError", "name")
                [] Has("name") /\ UnknownFolderStructure
                     -> Raise("KeyError", manifest_dict["folder_structure"])
                [] OTHER -> Raise("KeyError", "files")

\* a document with a name and a known folder structure and without files
C11_Witness ==
    /\ call.op = "Manifest"
    /\ Has("name") /\ ~Has("files")
    /\ Has("folder_structure") /\ ~UnknownFolderStructure
    /\ manifest = None
    /\ result = Raise("KeyError", "files")

\* C12 as stated: constructing a Manifest whose folder_structure is not a
\* known convention succeeds, the FolderStructure built records the name as
\* None, and the error is raised when a directory is resolved.
C12_UnknownRecordedAtConstruction ==
    (UnknownFolderStructure /\ MissingRequired = {}) =>
        /\ call.op = "Manifest" =>
              /\ result = Return(None)
              /\ Constructed
              /\ manifest.folder_structure.name = None
        /\ call.op = "get_source_dir" => result.type = "raise"

\* C13: for a document whose folder_structure is not a known convention the
\* constructor raises and builds no Manifest, and no call of get_source_dir
\* or get_all_files returns: no path is ever produced.
C13_UnknownNeverYieldsPath ==
    UnknownFolderStructure =>
        /\ call.op = "Manifest" => (manifest = None /\ result.type = "raise")
        /\ call.op \in {"get_source_dir", "get_all_files"} => result.type = "raise"
        /\ call.op \in {"none", "Manifest", "get_source_dir", "get_all_files"}

\* the constructor has raised for the convention flat of a document with
\* name and files
C13_Witness ==
    /\ UnknownFolderStructure /\ MissingRequired = {}
    /\ call.op = "Manifest"
    /\ manifest = None
    /\ result = Raise("KeyError", "flat")

\* the table of the known convention the document names
DeclaredStructure == folder_structures[manifest_dict["folder_structure"]]
\* the positions under `files` of the kinds the convention has no entry for
KindsWithoutEntry ==
    {i \in 1..Len(FilesItems) : FilesItems[i].key \notin DOMAIN DeclaredStructure}
\* the positions under `files` of the kinds without a list of file names
KindsWithoutList == {i \in 1..Len(FilesItems) : FilesItems[i].value = None}

\* C14: under a known convention, get_source_dir of a kind the convention
\* has no entry for raises KeyError for that kind and returns no path, and
\* get_all_files raises when such a kind is declared under `files`: the
\* KeyError of the first such kind, unless a kind before it has no list.
C14_KindMissingFromConvention ==
    (Has("folder_structure") /\ ~UnknownFolderStructure) =>
        /\ (call.op = "get_source_dir" /\ call.kind \notin DOMAIN DeclaredStructure)
              => result = Raise("KeyError", call.kind)
        /\ (call.op = "get_all_files" /\ KindsWithoutEntry # {}) =>
              /\ result.type = "raise"
              /\ LET first == CHOOSE i \in KindsWithoutEntry :
                                  \A j \in KindsWithoutEntry : i <= j
                 IN  (\A j \in KindsWithoutList : first <= j)
                        => result = Raise("KeyError", FilesItems[first].key)

\* get_all_files of a src_dsn manifest that declares dsn, with a file, and
\* then none
C14_Witness ==
    /\ call.op = "get_all_files"
    /\ Has("folder_structure") /\ manifest_dict["folder_structure"] = "src_dsn"
    /\ Len(FilesItems) = 2
    /\ FilesItems[1].key = "dsn" /\ FilesItems[1].value = OneFile
    /\ FilesItems[2].key = "none"
    /\ result = Raise("KeyError", "none")

\* C15: the Manifest built holds one FileList for each kind key under
\* `files`, in the order of the keys, with the value of the key as its
\* files, an empty list included, and none for any other kind.
C15_OneFileListPerKind ==
    Constructed =>
        /\ Len(manifest.file_lists) = Len(FilesItems)
        /\ \A i \in 1..Len(FilesItems) :
              /\ manifest.file_lists[i].kind = FilesItems[i].key
              /\ manifest.file_lists[i].files = FilesItems[i].value
        /\ \A kind \in DeclaredKinds :
              Cardinality(FileListsOf(kind)) = IF Declared(kind) THEN 1 ELSE 0

\* a Manifest of a document that declares tb with an empty list and then dsn
C15_Witness ==
    /\ Constructed
    /\ Len(FilesItems) = 2
    /\ FilesItems[1].key = "tb" /\ FilesItems[1].value = PyList(<<>>)
    /\ FilesItems[2].key = "dsn"
    /\ manifest.file_lists[1].kind = "tb"
    /\ manifest.file_lists[1].files = PyList(<<>>)
    /\ manifest.file_lists[2].kind = "dsn"

\* C16 as stated: every FileList of a Manifest built has a kind among dsn,
\* tb, self, none (a document declaring another kind builds no Manifest),
\* and get_lib_name returns no name for a FileList of another kind.
C16_KindsInClosedSet ==
    /\ Constructed =>
          \A i \in 1..Len(manifest.file_lists) :
              manifest.file_lists[i].kind \in RecognizedKinds
    /\ (call.op = "get_lib_name" /\ CalledFileList.kind \notin RecognizedKinds)
          => result.type = "raise"

\* the library name of the i-th FileList for the name of the Manifest
LibNameOf(i) == get_lib_name(manifest.file_lists[i], manifest.name)

\* C17: no two FileLists of a Manifest built return the same library name
\* for the name of the Manifest.
C17_NoLibNameCollision ==
    Constructed =>
        \A i, j \in 1..Len(manifest.file_lists) :
            (i # j /\ LibNameOf(i).type = "return" /\ LibNameOf(j).type = "return")
                => LibNameOf(i) # LibNameOf(j)

\* the library names x_tb and x_dsn of a Manifest declaring tb and dsn, the
\* first just returned by get_lib_name
C17_Witness ==
    /\ call.op = "get_lib_name"
    /\ call.blk_name = manifest.name
    /\ Len(manifest.file_lists) = 2
    /\ result = LibNameOf(call.file_list)
    /\ LibNameOf(1) = Return("x_tb")
    /\ LibNameOf(2) = Return("x_dsn")

\* C18 as stated: no step that appends to the supported_simulators of one
\* Manifest changes a field value of another Manifest or what its
\* get_preferred_simulator returns.
C18_NoSharedState ==
    [][\A i, j \in InstanceIds :
          (/\ i # j
           /\ call'.op = "append" /\ call'.instance = i
           /\ instances[j] # None) =>
              /\ ValueOf(instances', objects', j) = ValueOf(instances, objects, j)
              /\ get_preferred_simulator(ValueOf(instances', objects', j))
                    = get_preferred_simulator(ValueOf(instances, objects, j))]_vars

\* the operations that only read the Manifest
Accessors ==
    {"get_source_dir", "get_all_files", "get_preferred_simulator",
     "get_max_threads", "get_lib_name"}

\* C19: a call of get_source_dir, get_all_files, get_preferred_simulator,
\* get_max_threads or get_lib_name leaves the Manifest, with its FileLists
\* and FolderStructure, and the arguments it was built from as they were,
\* and a call repeated with the same arguments gives the same result.
C19_AccessorsKeepState ==
    [][call'.op \in Accessors =>
          /\ manifest' = manifest
          /\ manifest_dict' = manifest_dict
          /\ root_dir' = root_dir
          /\ call' = call => result' = result]_vars

\* get_all_files has returned two paths and the Manifest is the one that
\* was constructed
C19_Witness ==
    /\ call.op = "get_all_files"
    /\ result.type = "return"
    /\ Len(result.value.value) = 2
    /\ manifest = Manifest_init(manifest_dict, root_dir).value
    /\ Len(manifest.file_lists) = 2

\* the value the document gives the key, or the default when it has none
GivenOr(key, default) == IF Has(key) THEN manifest_dict[key] ELSE default

ReadWithoutManifest ==
    call.op = "read_manifest" /\ disk[call.root_dir] = NoFile

\* C22 as stated: read_manifest of a directory without a manifest file
\* raises ManifestNotFound.
C22_ManifestNotFound ==
    ReadWithoutManifest =>
        /\ result.type = "raise"
        /\ result.value.exc = "ManifestNotFound"

\* C22 amended: read_manifest of a directory without a manifest file raises
\* the FileNotFoundError of open() for manifest.yaml in that directory and
\* returns no Manifest, and add_files_from, which calls it, raises the same
\* error and leaves the VUnit object as it was.
C22_FileNotFoundError ==
    /\ ReadWithoutManifest =>
          result = Raise("FileNotFoundError",
                         Str(call.root_dir) \o "/manifest.yaml")
    /\ (call.op = "add_files_from" /\ disk[call.blk_dir] = NoFile) =>
          /\ result = Raise("FileNotFoundError",
                            Str(call.blk_dir) \o "/manifest.yaml")
          /\ vu = call.vu

\* read_manifest of /w/p, which holds no manifest file, while /e/q holds one
C22_Witness ==
    /\ ReadWithoutManifest
    /\ call.root_dir = BlockDirs[1]
    /\ disk[BlockDirs[2]] # NoFile
    /\ result = Raise("FileNotFoundError", "/w/p/manifest.yaml")

\* a document with an empty list of file names in place of every absent one
DocumentWithEmptyLists(document) ==
    IF document = NoFile THEN NoFile
    ELSE [document EXCEPT !.files =
            PyDict([i \in 1..Len(@.value) |->
                      IF @.value[i].value = None
                      THEN [key |-> @.value[i].key, value |-> PyList(<<>>)]
                      ELSE @.value[i]])]
DiskWithEmptyLists == [d \in DOMAIN disk |-> DocumentWithEmptyLists(disk[d])]

\* C23: each of get_vhdl_ls_libs, get_vsg_files, generate_filelist and
\* add_files_from (through add_files_to_lib) gives, for manifests with
\* absent (null) lists of file names, what it gives with empty lists in
\* their place, and does not raise for them.
C23_AbsentFilesSkipped ==
    /\ call.op = "get_vhdl_ls_libs" =>
          result = get_vhdl_ls_libs(DiskWithEmptyLists, call.vunit_installed)
    /\ call.op = "get_vsg_files" => result = get_vsg_files(DiskWithEmptyLists)
    /\ call.op = "add_files_from" =>
          result = add_files_from(call.blk_dir, call.vu, call.vu.args, root_dir,
                                  DiskWithEmptyLists).result
    /\ call.op = "generate_filelist" =>
          result = generate_filelist(DiskWithEmptyLists, call.for_ip)

\* the Manifest of a block directory that holds a manifest file
ManifestOf(blk_dir) == Manifest_init(disk[blk_dir], blk_dir).value
\* the elements of a list
Elements(l) == {l.value[i] : i \in 1..Len(l.value)}

\* C24: the dictionary get_vhdl_ls_libs returns holds, for every block and
\* every FileList of its manifest with files, every file of the FileList,
\* by its full path, under the library name of the FileList.
C24_NoFileLost ==
    (call.op = "get_vhdl_ls_libs" /\ result.type = "return") =>
        \A blk_dir \in {d \in DOMAIN disk : disk[d] # NoFile} :
            \A j \in 1..Len(ManifestOf(blk_dir).file_lists) :
                LET file_list == ManifestOf(blk_dir).file_lists[j]
                    lib == get_lib_name(file_list, ManifestOf(blk_dir).name).value
                IN  file_list.files # None =>
                        /\ dict_contains(result.value, lib)
                        /\ \A k \in 1..Len(file_list.files.value) :
                              Str(blk_dir) \o "/" \o Str(file_list.files.value[k])
                                \in Elements(dict_getitem(result.value, lib))

\* the library name of a FileList of a recognized kind for a block name
LibraryName(blk_name, kind) ==
    CASE kind = "dsn" -> blk_name \o "_dsn"
      [] kind = "tb" -> blk_name \o "_tb"
      [] kind = "self" -> blk_name \o "_lib"
      [] kind = "none" -> blk_name

\* C25: add_files_from of a block with a manifest returns the VUnit object
\* unchanged, with no library and no source file added, when a simulator
\* is selected that the manifest's supported_simulators does not hold;
\* otherwise it returns it with one library added per FileList, in their
\* order, named get_lib_name(manifest.name), after the libraries it held.
C25_AddsNothingIfUnsupported ==
    (call.op = "add_files_from" /\ disk[call.blk_dir] # NoFile) =>
        LET m == ManifestOf(call.blk_dir)
            simulator == call.vu.args.simulator
            before == call.vu.libraries
        IN  IF /\ simulator # None
               /\ simulator.value \notin Elements(m.supported_simulators)
            THEN result = Return(call.vu) /\ vu = call.vu
            ELSE /\ result = Return(vu)
                 /\ Len(vu.libraries) = Len(before) + Len(m.file_lists)
                 /\ SubSeq(vu.libraries, 1, Len(before)) = before
                 /\ \A j \in 1..Len(m.file_lists) :
                       vu.libraries[Len(before) + j].name
                         = LibraryName(m.name, m.file_lists[j].kind)
                 /\ [vu EXCEPT !.libraries = before] = call.vu

\* add_files_from, with ghdl selected, of a block that declares tb and dsn
\* and supports msim and msim_free
C25_Witness ==
    /\ call.op = "add_files_from" /\ disk[call.blk_dir] # NoFile
    /\ call.vu.args.simulator = PyStr("ghdl")
    /\ Len(ManifestOf(call.blk_dir).file_lists) = 2
    /\ ManifestOf(call.blk_dir).supported_simulators = PyList(<<"msim", "msim_free">>)
    /\ result = Return(vu)
    /\ vu.libraries = <<>>

\* C26: a thread has returned from dump only after it wrote every line of
\* its ordered_tests to the status file, however often opening the file
\* failed before, and under fair scheduling of the threads a thread that
\* tries to open the file does return from dump.
C26_DumpReturnsAfterWrite ==
    /\ [](\A t \in Threads :
            threads[t].pc = "returned" =>
                /\ threads[t].written # <<>>
                /\ threads[t].written = status_lines(threads[t].ordered_tests))
    /\ \A t \in Threads :
          (threads[t].pc = "open") ~> (threads[t].pc = "returned")

\* a thread has returned from dump after an attempt that failed
C26_Witness ==
    \E t \in Threads :
        /\ threads[t].pc = "returned"
        /\ threads[t].attempts >= 1
        /\ threads[t].written = status_lines(threads[t].ordered_tests)
        /\ status_file.holder = Closed

\* every _read_test_results_and_write_to_file has returned
AllReturned ==
    /\ status_file.holder = Closed
    /\ \A t \in Threads : threads[t].pc \in {"idle", "returned"}

StatusRank(name) == CHOOSE k \in 1..Len(OrderedStatuses) : OrderedStatuses[k] = name

\* C27: once the results read so far are dumped, the status file holds one
\* line per known test and no other, the line of a test gives "running"
\* until its result is read and the status of the result from then on, and
\* the lines come in the order failed, passed, skipped, running.
C27_StatusFileTracksResults ==
    AllReturned =>
        LET lines == status_file.lines
            tests == all_tests.value
            LineOf(i) == status_line(tests[i].key, tests[i].value)
        IN  /\ Len(lines) = Len(tests)
            /\ \A i \in 1..Len(tests) : \E j \in 1..Len(lines) : lines[j] = LineOf(i)
            /\ \A j1, j2 \in 1..Len(lines) : \A i1, i2 \in 1..Len(tests) :
                  (j1 < j2 /\ lines[j1] = LineOf(i1) /\ lines[j2] = LineOf(i2)) =>
                      StatusRank(tests[i1].value) <= StatusRank(tests[i2].value)

\* C28: read_status_txt of a file that dump wrote returns one row per line,
\* in order, whose status is the status written and whose full_test is the
\* test name written.
C28_RoundTrip ==
    call.op = "read_status_txt" =>
        /\ result.type = "return"
        /\ Len(result.value.value) = Len(call.lines)
        /\ \A i \in 1..Len(call.lines) :
              \E test \in TestNames, name \in ResultNames \cup {"running"} :
                  /\ call.lines[i] = status_line(test, name)
                  /\ dict_getitem(result.value.value[i], "status") = name
                  /\ dict_getitem(result.value.value[i], "full_test") = Str(test)

\* the compile-order file of the project IP
CompileOrder == compile_order_file(VivadoLibs)

\* the last call reached add_project_ip: directly, or from setup_vunit
\* through add_vivado_ip, with the blocks added, a simulator that IP is
\* added for and a project file that exists
AddsProjectIp ==
    \/ call.op = "add_project_ip"
    \/ /\ call.op = "setup_vunit"
       /\ disk[BlockDirs[2]] # NoFile
       /\ call.use_vivado_ip
       /\ call.args.simulator = PyStr("msim")
       /\ call.vivado_project # None
       /\ Path(ProjectFile) \in call.files

\* the last call asked for a fresh compile order
CleanRequested ==
    \/ call.op = "add_project_ip" /\ call.clean
    \/ call.op = "setup_vunit" /\ call.args.reload_project

\* C29: a call that reaches add_project_ip has Vivado create the
\* compile-order file exactly when a clean search is asked for (clean, or
\* clear_ip_search before add_vivado_ip) or the file does not exist, and
\* otherwise leaves the files as they are; when it returns, the file
\* exists, so that the next call without clearing reuses it;
\* clear_ip_search removes that file and no other.
C29_ProjectIpCached ==
    /\ AddsProjectIp =>
          /\ host.created = (CleanRequested \/ CompileOrder \notin call.files)
          /\ result.type = "return" => CompileOrder \in host.files
          /\ ~host.created => (host.files = call.files /\ result.type = "return")
          /\ host.files \ {CompileOrder} = call.files \ {CompileOrder}
    /\ call.op = "clear_ip_search" =>
          host.files = call.files \ {CompileOrder} /\ ~host.created
    /\ (call.op = "setup_vunit" /\ ~AddsProjectIp) => ~host.created

\* setup_vunit without reload_project, the compile-order file of an
\* earlier run in place: the file is reused
C29_Witness ==
    /\ call.op = "setup_vunit" /\ AddsProjectIp
    /\ ~call.args.reload_project
    /\ CompileOrder \in call.files
    /\ ~host.created
    /\ result.type = "return"
    /\ CompileOrder \in host.files

Smaller(a, b) == IF a < b THEN a ELSE b

\* C30 as stated: after setup_vunit the thread count is at most the core
\* count; for msim it is 1 without a license, and the number of licenses
\* when these are fewer than the threads requested and the user agrees or
\* is not asked; for another simulator it is the smaller of the threads
\* requested and the cores, whatever the licenses.
C30_ThrottledToLicenses ==
    call.op = "setup_vunit" =>
        LET requested == call.args.num_threads
            licenses == get_num_licenses_available(host.lmstat)
            agreed == call.args.no_prompts \/ call.answer = "Y"
        IN  /\ vunit_args.num_threads <= host.num_cores
            /\ call.args.simulator = PyStr("msim") =>
                  /\ licenses = 0 => vunit_args.num_threads = 1
                  /\ (0 < licenses /\ licenses < requested /\ agreed) =>
                        vunit_args.num_threads = licenses
            /\ call.args.simulator # PyStr("msim") =>
                  vunit_args.num_threads = Smaller(requested, host.num_cores)

\* C30, amended: the licenses are compared with the thread count left
\* after the throttling to the cores, not with the threads requested.
C30_ThrottledToCoresThenLicenses ==
    call.op = "setup_vunit" =>
        LET cored == Smaller(call.args.num_threads, host.num_cores)
            licenses == get_num_licenses_available(host.lmstat)
            agreed == call.args.no_prompts \/ call.answer = "Y"
        IN  /\ vunit_args.num_threads <= host.num_cores
            /\ call.args.simulator = PyStr("msim") =>
                  /\ licenses = 0 => vunit_args.num_threads = 1
                  /\ (0 < licenses /\ licenses < cored) =>
                        vunit_args.num_threads = IF agreed THEN licenses ELSE cored
                  /\ licenses >= cored => vunit_args.num_threads = cored
            /\ call.args.simulator # PyStr("msim") =>
                  vunit_args.num_threads = cored

\* msim with fewer cores than licenses and fewer licenses than threads
\* requested, prompts disabled: throttled to the cores
C30_Witness ==
    /\ call.op = "setup_vunit"
    /\ call.args.simulator = PyStr("msim")
    /\ call.args.no_prompts
    /\ host.num_cores < get_num_licenses_available(host.lmstat)
    /\ get_num_licenses_available(host.lmstat) < call.args.num_threads
    /\ vunit_args.num_threads = host.num_cores

====
